---- MODULE Spec2Model ----
(***************************************************************************)
(* Model of the issue-lifecycle engine of github-issue-analysis:           *)
(*   - the cache store and the rate-limited request client                 *)
(*     (GitHubCycleTimeAnalyzer._make_request and its twin in              *)
(*     GitHubDataSyncer),                                                  *)
(*   - the page loop of fetch_issues,                                      *)
(*   - the stages of the two main pipelines (cycle_time.py main and        *)
(*     sync_issues.py sync_issues_to_json) with their SIGINT handling.     *)
(*                                                                         *)
(* Time is counted in whole days (datetime.timedelta.days floors the age   *)
(* of a cache file); the 1-second sleeps of a rate-limit wait are steps of *)
(* the request machine and do not move the day clock.                      *)
(*                                                                         *)
(* A request identity (URL + sorted parameters) is a natural number: for   *)
(* the issue listing it is the page number, the only parameter that varies.*)
(* A response body is a sequence of item ids.                              *)
(***************************************************************************)
EXTENDS Integers, Sequences, FiniteSets, TLC

VARIABLES
    now,                      \* wall clock, in days
    cache,                    \* cache directory: request identity -> [data, mtime]
    interrupted,              \* self.interrupted, the shared cancellation flag
    handler,                  \* installed SIGINT handler: "default" | "flag"
    original_signal_handler,  \* self.original_signal_handler: "none" | "default" | "flag"
    srv,                      \* what the upstream serves (fixed for a run)
    mrPc,                     \* position inside _make_request
    mrKey,                    \* request identity of the call in progress
    mrTick,                   \* loop variable i of the rate-limit wait
    mrTicks,                  \* int(sleep_time), the number of 1-second ticks
    mrRet,                    \* outcome of the last _make_request call
    netLog,                   \* network requests of the call in progress (status codes)
    lastOk,                   \* history: body of the last 2xx response per identity
    startHit,                 \* history: the fresh entry found when the call started
    waitSig,                  \* history: when SIGINT arrived relative to the wait
    fPc,                      \* position inside fetch_issues
    page,                     \* fetch_issues: page
    issues,                   \* fetch_issues: issues, the list collected so far / returned
    limit,                    \* fetch_issues: limit (0 stands for None)
    fErr,                     \* exception that left fetch_issues ("none" when it returned)
    pageLog,                  \* history: pages requested through _make_request, in order
    saw422,                   \* history: a page request was answered 422
    sig,                      \* history: where fetch_issues was when SIGINT set the flag
    prog,                     \* the program run: "analyzer" | "syncer" ("none": no run of main)
    mPc,                      \* position of the pipeline (main / sync_issues_to_json)
    mOut,                     \* how the run of the pipeline ended
    mIssues,                  \* the pipeline's local 'issues' handed from stage to stage
    metrics,                  \* calculate_cycle_times: metrics; work_started_at is "None" when
                              \* extract_work_start_date returned at its flag check (1104),
                              \* "inferred" when it went on to read the signals
    enhanced_issues,          \* sync_issues_to_json: enhanced_issues
    ci,                       \* loop index i of the per-issue loop
    cq,                       \* the per-issue request being made
    commit_search_available,  \* self.commit_search_available: "None" | "True" | "False"
    rk,                       \* generate_report: interruption checks passed
    report,                   \* report files written: "none" | "data" | "charts" | "full"
    synced,                   \* number of issues in the JSON the syncer wrote (-1: no file)
    stageOut,                 \* how the last per-issue or report stage ended
    stageStarts,              \* history: the flag and the handler each stage found when it started
    sigLog,                   \* history: where the pipeline was at each SIGINT
    csLog,                    \* history: the commit search probes and the flag going off
    iPc,                      \* position in the handling of one issue
    issue,                    \* the issue: created_at, closed_at, assignee
    events,                   \* what fetch_issue_events gives for the issue
    commits,                  \* what fetch_commits_for_issue returns for the issue
    prs,                      \* what fetch_pull_requests_for_issue returns
    work_started_at,          \* calculate_cycle_times: work_started_at
    cycle_time_days,          \* calculate_cycle_times: cycle_time_days
    stage_segments,           \* calculate_cycle_times: stage_segments
    fsys,                     \* the cache directories and files on disk
    cache_error_shown,        \* hasattr(self, '_cache_error_shown')
    cache_load_error_shown,   \* hasattr(self, '_cache_load_error_shown')
    warned,                   \* history: warnings printed by this client, per kind
    asked,                    \* history: the params of the last request, those of the
                              \* request that wrote each cache file, and the data
                              \* each GraphQL query was answered with
    cOut,                     \* outcome of the last cache operation or cached request
    tPc,                      \* position in _calculate_monthly_cycle_trends
    closed_issues,            \* its argument: rows of closed_month and cycle_time_days
    monthly_avg,              \* the DataFrame it returns
    labels,                   \* issue['labels'] of the issue handed to the filters
    verdict,                  \* what each is_strategic_work returned for it
    totals,                   \* total_work_time, total_wait_time, work_efficiency_ratio
    piPc,                     \* position inside fetch_project_items
    all_items,                \* fetch_project_items: all_items
    cursor,                   \* fetch_project_items: cursor ("None" before the first page)
    item_page,                \* fetch_project_items: page
    itemLog,                  \* history: the cursor sent with each request and its answer
    enPc,                     \* enrich_issues_with_project_data: not called, called, or the path it returned by
    enWho,                    \* whose method it is: "analyzer" | "syncer"
    heap,                     \* the issue dicts in memory, by object identity
    heap0,                    \* history: the issue dicts as they were at the call
    given,                    \* the list 'issues' handed in: object identities
    returned,                 \* the list returned: object identities
    mKeys,                    \* sync_issues_to_json: the enrichment keys that the dicts of 'issues' carry
    synced_keys               \* the enrichment keys of the issues in the JSON the syncer wrote

reqVars == << mrPc, mrKey, mrTick, mrTicks, mrRet, netLog, lastOk, startHit, waitSig >>

fetchVars == << fPc, page, issues, limit, fErr, pageLog, saw422 >>

pipeVars == << prog, mPc, mOut, mIssues, metrics, enhanced_issues, ci, cq,
              commit_search_available, rk, report, synced, stageOut >>

issueVars == << iPc, issue, events, commits, prs, work_started_at,
               cycle_time_days, stage_segments >>

storeVars == << fsys, cache_error_shown, cache_load_error_shown, warned, asked,
               cOut >>

projectVars == << piPc, all_items, cursor, item_page, itemLog >>

enrichVars == << enPc, enWho, heap, heap0, given, returned >>

docVars == << mKeys, synced_keys >>

trendVars == << tPc, closed_issues, monthly_avg, labels, verdict, totals,
               projectVars, enrichVars, docVars >>

vars == << now, cache, interrupted, handler, original_signal_handler, srv,
           reqVars, fetchVars, sig, pipeVars, stageStarts, sigLog, csLog,
           issueVars, storeVars, trendVars >>

----------------------------------------------------------------------------
(* Bounds of the model *)

MaxKey == 2          \* request identities 1..MaxKey of the request-level model
MaxBody == 1         \* distinct non-empty response bodies the upstream may send
MaxDays == 7         \* the clock stops advancing here
MaxWait == 2         \* largest remaining rate-limit time (whole seconds) in a 403

MaxFullPages == 5    \* the listing has at most this many full pages
ShortPage == 37      \* size of a short last page
MidLimit == 150      \* an item limit that falls inside the second page
MaxWarm == 1         \* pages of the listing already cached when a run starts
StrategicEvery == 10 \* one issue in this many carries a strategic label

(* Program constants *)

cache_expiry_days == 7
PerPage == 100       \* params['per_page'] and the short-page test
PageLimit == 500     \* safety ceiling on the page number
CheckEvery == 10     \* the per-issue loops read the flag when i % 10 == 0

NoSignal == [fpc |-> "none", page |-> 0, mr |-> "none"]

----------------------------------------------------------------------------
(* Cache store *)

NoEntry == [hit |-> FALSE, data |-> << >>]

\* _is_cache_valid (bug variant: the last valid day is cut off)
is_cache_valid_off_by_one(k) ==
    /\ k \in DOMAIN cache
    /\ (now - cache[k].mtime) < cache_expiry_days - 1

\* _is_cache_valid: the file exists and (now - mtime).days < cache_expiry_days
is_cache_valid(k) ==
    /\ k \in DOMAIN cache
    /\ (now - cache[k].mtime) < cache_expiry_days

\* _load_from_cache: the payload of a valid entry, else None
load_from_cache(k) ==
    IF is_cache_valid(k) THEN [hit |-> TRUE, data |-> cache[k].data] ELSE NoEntry

\* _save_to_cache: (over)write the file of the key; its mtime is the time of writing
save_to_cache(c, k, data) ==
    (k :> [data |-> data, mtime |-> now]) @@ c

----------------------------------------------------------------------------------------------------------------------------------------
(* Upstream *)

Min(a, b) == IF a < b THEN a ELSE b

Max(a, b) == IF a > b THEN a ELSE b

\* The issue listing of a repository with srv.total items (issues and pull
\* requests), item ids 1..total in listing order, cut into pages of per_page:
\* page p of GET /repos/{owner}/{repo}/issues?per_page=100&page=p.
\* An upstream in mode "endless" answers every page number with a full page.
PageItems(p) ==
    LET lo == (p - 1) * PerPage
        n  == IF srv.mode = "endless" THEN PerPage
              ELSE Min(PerPage, Max(0, srv.total - lo))
    IN  [j \in 1..n |-> lo + j]

\* The item carries a 'pull_request' key
IsPull(id) ==
    \/ srv.pulls = "all"
    \/ srv.pulls = "alt" /\ id % 2 = 0

\* is_strategic_work(issue): decided by the labels of the issue
is_strategic_work(id) ==
    srv.strategic = "some" /\ id % StrategicEvery = 1

\* Request identities of the per-issue endpoints, apart from the page numbers:
\* q = 0 is /issues/{n}/events, q = 1 the commit search for '#n'
IssueKey(n, q) == PageLimit + 4 * n + q

\* Identity of the commit search probe (q = 'repo:{owner}/{repo}', per_page 1)
ProbeKey == PageLimit + 1

IsSearchKey(k) == (k - PageLimit) % 4 = 1

\* Bodies the upstream may answer a 2xx with for identity k
ServerBodies(k) ==
    IF srv.mode = "any" THEN { << b >> : b \in 1..MaxBody }
    ELSE IF k <= PageLimit THEN { PageItems(k) }
    ELSE { << k >> }

\* Answers of the per-issue endpoints: all served ("ok"), all rate limited
\* ("limited"), events served and the search endpoint answering 422
\* ("nosearch"), or all served but the searches for an issue number, which
\* are answered 403 without rate limit text ("forbidden")
DetailResponses(k) ==
    IF srv.detail = "limited"
    THEN { [status |-> 403, rate_limit |-> TRUE, reset_in |-> r, body |-> << >>] :
               r \in {0, MaxWait} }
    ELSE IF srv.detail = "nosearch" /\ IsSearchKey(k)
    THEN { [status |-> 422, rate_limit |-> FALSE, reset_in |-> 0, body |-> << >>] }
    ELSE IF srv.detail = "forbidden" /\ IsSearchKey(k) /\ k # ProbeKey
    THEN { [status |-> 403, rate_limit |-> FALSE, reset_in |-> 0, body |-> << >>] }
    ELSE { [status |-> 200, rate_limit |-> FALSE, reset_in |-> 0, body |-> b] :
               b \in ServerBodies(k) }

\* A response as _make_request reads it: status code, whether the text holds
\* 'rate limit', the whole seconds left until X-RateLimit-Reset, the JSON body.
Responses(k) ==
    IF k > PageLimit THEN DetailResponses(k)
    ELSE
    { [status |-> 200, rate_limit |-> FALSE, reset_in |-> 0, body |-> b] :
          b \in ServerBodies(k) }
    \cup { [status |-> 403, rate_limit |-> TRUE, reset_in |-> r, body |-> << >>] :
          r \in 0..MaxWait }
    \cup { [status |-> s, rate_limit |-> FALSE, reset_in |-> 0, body |-> << >>] :
          s \in {403, 422, 500} }

\* session.get(url, params): the entry it leaves in the log of network requests
Sent(k, r) == [key |-> k, status |-> r.status, rate_limit |-> r.rate_limit]

----------------------------------------------------------------------------
(* _make_request *)

NoResult == [kind |-> "none", data |-> << >>, status |-> 0]

\* Lines 424-447: what the call does with the response it ends on (bug variant:
\* the body is cached before the status is looked at).
make_request_finish_cache_first(k, r) ==
    /\ mrPc' = "done"
    /\ mrTick' = 0
    /\ mrTicks' = 0
    /\ cache' = save_to_cache(cache, k, r.body)
    /\ IF r.status = 422
       THEN mrRet' = [kind |-> "value", data |-> << >>, status |-> r.status]
       ELSE IF r.status >= 400
       THEN mrRet' = [kind |-> "http_error", data |-> << >>, status |-> r.status]
       ELSE mrRet' = [kind |-> "value", data |-> r.body, status |-> r.status]

\* Lines 424-447: what the call does with the response it ends on.
\*   422            -> return {} (nothing cached)
\*   other >= 400   -> raise_for_status() raises HTTPError
\*   otherwise      -> data = response.json(); cached when 200 <= status < 300
make_request_finish(k, r) ==
    /\ mrPc' = "done"
    /\ mrTick' = 0
    /\ mrTicks' = 0
    /\ IF r.status = 422
       THEN /\ mrRet' = [kind |-> "value", data |-> << >>, status |-> r.status]
            /\ cache' = cache
       ELSE IF r.status >= 400
       THEN /\ mrRet' = [kind |-> "http_error", data |-> << >>, status |-> r.status]
            /\ cache' = cache
       ELSE /\ mrRet' = [kind |-> "value", data |-> r.body, status |-> r.status]
            /\ cache' = IF 200 <= r.status /\ r.status < 300
                        THEN save_to_cache(cache, k, r.body)
                        ELSE cache

\* Variant of line 403 that waits on every 403, whatever its text
make_request_begin_any_403(k, r) ==
    LET c == load_from_cache(k) IN
    /\ mrKey' = k
    /\ IF c.hit
       THEN /\ mrPc' = "done"
            /\ mrRet' = [kind |-> "value", data |-> c.data, status |-> 0]
            /\ netLog' = << >>
            /\ mrTick' = 0
            /\ mrTicks' = 0
            /\ cache' = cache
       ELSE /\ netLog' = << Sent(k, r) >>
            /\ IF r.status = 403
               THEN /\ mrPc' = "tick"
                    /\ mrTick' = 0
                    /\ mrTicks' = r.reset_in + 1
                    /\ UNCHANGED << cache, mrRet >>
               ELSE make_request_finish(k, r)

\* Lines 389-422 up to the first flag read: cache lookup; on a miss the first
\* session.get, answered by r; a 403 with 'rate limit' in its text enters the
\* wait loop with int(max(reset_time - time.time(), 0) + 1) ticks.
make_request_begin(k, r) ==
    LET c == load_from_cache(k) IN
    /\ mrKey' = k
    /\ IF c.hit
       THEN /\ mrPc' = "done"
            /\ mrRet' = [kind |-> "value", data |-> c.data, status |-> 0]
            /\ netLog' = << >>
            /\ mrTick' = 0
            /\ mrTicks' = 0
            /\ cache' = cache
       ELSE /\ netLog' = << Sent(k, r) >>
            /\ IF r.status = 403 /\ r.rate_limit
               THEN /\ mrPc' = "tick"
                    /\ mrTick' = 0
                    /\ mrTicks' = r.reset_in + 1
                    /\ UNCHANGED << cache, mrRet >>
               ELSE make_request_finish(k, r)

\* History of a step of _make_request: the body of a 2xx response just received
ObserveResponse(k, r) ==
    lastOk' = IF Len(netLog') > 0 /\ netLog' # netLog
                 /\ 200 <= r.status /\ r.status < 300
              THEN (k :> r.body) @@ lastOk
              ELSE lastOk

\* History of the start of a call: the fresh entry there was, and whether the
\* flag was already set when the wait began
ObserveStart(k) ==
    /\ startHit' = IF k \in DOMAIN cache /\ now - cache[k].mtime < cache_expiry_days
                   THEN [hit |-> TRUE, data |-> cache[k].data] ELSE NoEntry
    /\ waitSig' = IF mrPc' = "tick" /\ interrupted THEN "before" ELSE "none"

\* Lines 411-417 (bug variant: the loop sleeps without looking at the flag)
MR_Tick_nocheck ==
    /\ mrPc = "tick"
    /\ mrTick' = mrTick + 1
    /\ mrPc' = IF mrTick + 1 < mrTicks THEN "tick" ELSE "retry"
    /\ UNCHANGED << now, cache, interrupted, handler, original_signal_handler, srv, issueVars, storeVars, trendVars, csLog,
                    mrKey, mrRet, mrTicks, netLog, lastOk, startHit, waitSig,
                    fetchVars, sig,
                    pipeVars, stageStarts, sigLog >>

\* Lines 411-417 (variant: one call of sleep for the whole wait, as
\* test_make_request_rate_limit expects)
MR_Tick_whole_wait ==
    /\ mrPc = "tick"
    /\ IF interrupted
       THEN /\ mrPc' = "done"
            /\ mrRet' = [kind |-> "interrupted", data |-> << >>, status |-> 0]
            /\ mrTick' = 0
            /\ mrTicks' = 0
       ELSE /\ mrTick' = mrTick + 1
            /\ mrPc' = "retry"
            /\ UNCHANGED << mrRet, mrTicks >>
    /\ UNCHANGED << now, cache, interrupted, handler, original_signal_handler, srv, issueVars, storeVars, trendVars, csLog,
                    mrKey, netLog, lastOk, startHit, waitSig, fetchVars, sig,
                    pipeVars, stageStarts, sigLog >>

\* Lines 411-417: one iteration of the wait loop: read the flag, raise
\* InterruptedException when it is set, else sleep one second.
MR_Tick ==
    /\ mrPc = "tick"
    /\ IF interrupted
       THEN /\ mrPc' = "done"
            /\ mrRet' = [kind |-> "interrupted", data |-> << >>, status |-> 0]
            /\ mrTick' = 0
            /\ mrTicks' = 0
       ELSE /\ mrTick' = mrTick + 1
            /\ mrPc' = IF mrTick + 1 < mrTicks THEN "tick" ELSE "retry"
            /\ UNCHANGED << mrRet, mrTicks >>
    /\ UNCHANGED << now, cache, interrupted, handler, original_signal_handler, srv, issueVars, storeVars, trendVars, csLog,
                    mrKey, netLog, lastOk, startHit, waitSig, fetchVars, sig,
                    pipeVars, stageStarts, sigLog >>

\* Line 419 (bug variant: a retry that is rate limited again waits again)
MR_Retry_again ==
    /\ mrPc = "retry"
    /\ \E r \in Responses(mrKey) :
         /\ netLog' = Append(netLog, Sent(mrKey, r))
         /\ IF r.status = 403 /\ r.rate_limit
            THEN /\ mrPc' = "tick"
                 /\ mrTick' = 0
                 /\ mrTicks' = r.reset_in + 1
                 /\ UNCHANGED << cache, mrRet >>
            ELSE make_request_finish(mrKey, r)
         /\ ObserveResponse(mrKey, r)
    /\ UNCHANGED << now, interrupted, handler, original_signal_handler, srv, issueVars, storeVars, trendVars, csLog,
                    mrKey, startHit, waitSig, fetchVars, sig,
                    pipeVars, stageStarts, sigLog >>

\* Line 419: the loop is exhausted; the same request is issued again and the
\* call ends on its response (lines 424-447), whatever the flag.
MR_Retry ==
    /\ mrPc = "retry"
    /\ \E r \in Responses(mrKey) :
         /\ netLog' = Append(netLog, Sent(mrKey, r))
         /\ make_request_finish(mrKey, r)
         /\ ObserveResponse(mrKey, r)
    /\ UNCHANGED << now, interrupted, handler, original_signal_handler, srv, issueVars, storeVars, trendVars, csLog,
                    mrKey, startHit, waitSig, fetchVars, sig,
                    pipeVars, stageStarts, sigLog >>

----------------
(* SIGINT while a stage's handler is installed: signal_handler sets the flag *)

SignalFlag ==
    /\ handler = "flag"
    /\ ~interrupted
    /\ interrupted' = TRUE
    /\ waitSig' = IF mrPc = "tick" THEN "tick"
                  ELSE IF mrPc = "retry" THEN "last"
                  ELSE waitSig
    /\ sig' = IF fPc \in {"top", "wait"}
              THEN [fpc |-> fPc, page |-> page, mr |-> mrPc]
              ELSE sig
    /\ sigLog' = IF mPc = "none" THEN sigLog
                 ELSE Append(sigLog, [at |-> mPc, i |-> ci, k |-> rk, h |-> "flag"])
    /\ UNCHANGED << now, cache, handler, original_signal_handler, srv, issueVars, storeVars, trendVars, csLog,
                    mrPc, mrKey, mrTick, mrTicks, mrRet, netLog, lastOk, startHit,
                    fetchVars, pipeVars, stageStarts >>

----------------------------------------------------------------------------
(* Request-level specification: a stage issuing arbitrary requests *)

\* A caller inside a stage calls _make_request(k)
ClientCall(k) ==
    /\ mrPc = "idle"
    /\ \E r \in Responses(k) :
         /\ make_request_begin(k, r)
         /\ ObserveResponse(k, r)
    /\ ObserveStart(k)
    /\ UNCHANGED << now, interrupted, handler, original_signal_handler, srv, issueVars, storeVars, trendVars, csLog,
                    fetchVars, sig,
                    pipeVars, stageStarts, sigLog >>

\* The caller has taken the result (or caught the exception) of the call
ClientReturn ==
    /\ mrPc = "done"
    /\ mrPc' = "idle"
    /\ mrKey' = 0
    /\ mrRet' = NoResult
    /\ netLog' = << >>
    /\ startHit' = NoEntry
    /\ waitSig' = "none"
    /\ UNCHANGED << now, cache, interrupted, handler, original_signal_handler, srv, issueVars, storeVars, trendVars, csLog,
                    mrTick, mrTicks, lastOk, fetchVars, sig,
                    pipeVars, stageStarts, sigLog >>

\* A new stage begins: self.interrupted = False (calculate_cycle_times, generate_report)
StageReset ==
    /\ mrPc = "idle"
    /\ interrupted
    /\ interrupted' = FALSE
    /\ UNCHANGED << now, cache, handler, original_signal_handler, srv, issueVars, storeVars, trendVars, csLog,
                    reqVars, fetchVars, sig,
                    pipeVars, stageStarts, sigLog >>

\* Days pass between calls
AdvanceClock(d) ==
    /\ mrPc = "idle"
    /\ now + d <= MaxDays
    /\ now' = now + d
    /\ UNCHANGED << cache, interrupted, handler, original_signal_handler, srv, issueVars, storeVars, trendVars, csLog,
                    reqVars, fetchVars, sig,
                    pipeVars, stageStarts, sigLog >>

\* No call of _make_request in progress
InitRequest ==
    /\ mrPc = "idle"
    /\ mrKey = 0
    /\ mrTick = 0
    /\ mrTicks = 0
    /\ mrRet = NoResult
    /\ netLog = << >>
    /\ lastOk = << >>
    /\ startHit = NoEntry
    /\ waitSig = "none"

\* No timestamp: Python's None
NoTime == 0 - 1

\* No issue is being handled: the per-issue variables keep these values
InitNoIssue ==
    /\ iPc = "none"
    /\ issue = [created_at |-> 0, closed_at |-> NoTime, assignee |-> FALSE]
    /\ events = [raised |-> FALSE, list |-> << >>]
    /\ commits = << >>
    /\ prs = << >>
    /\ work_started_at = NoTime
    /\ cycle_time_days = [null |-> TRUE, days |-> 0]
    /\ stage_segments = << >>

\* No commit search probe made yet
InitSearchLog ==
    csLog = [probes |-> 0, probe422 |-> FALSE, off |-> "no", skipped |-> FALSE]

\* The outcome record of a cache operation, with nothing in it
NoOutcome == [op |-> "none", client |-> FALSE, ret |-> << >>,
              hit |-> FALSE, net |-> FALSE, raised |-> FALSE]

\* No cache directory on disk and no client built
InitNoStore ==
    /\ fsys = [base |-> FALSE, repo |-> FALSE, files |-> << >>]
    /\ cache_error_shown = FALSE
    /\ cache_load_error_shown = FALSE
    /\ warned = [load |-> 0, save |-> 0]
    /\ asked = [last |-> << >>, writer |-> << >>, answered |-> << >>]
    /\ cOut = NoOutcome

\* Lines 1331-1334: total_work_time, total_wait_time and work_efficiency_ratio
\* are None until segments give them a value
NoTotals ==
    [total_work_time |-> [null |-> TRUE, days |-> 0],
     total_wait_time |-> [null |-> TRUE, days |-> 0],
     work_efficiency_ratio |-> [null |-> TRUE, num |-> 0, den |-> 1]]

\* No call of fetch_project_items
InitNoProject ==
    /\ piPc = "none"
    /\ all_items = << >>
    /\ cursor = "None"
    /\ item_page = 0
    /\ itemLog = << >>

\* No call of enrich_issues_with_project_data
InitNoEnrich ==
    /\ enPc = "none"
    /\ enWho = "none"
    /\ heap = << >>
    /\ heap0 = << >>
    /\ given = << >>
    /\ returned = << >>

\* No call of _calculate_monthly_cycle_trends and none of is_strategic_work
InitNoTrend ==
    /\ tPc = "none"
    /\ closed_issues = << >>
    /\ monthly_avg = << >>
    /\ labels = << >>
    /\ verdict = [cycle_time |-> "none", sync_issues |-> "none",
                  utils_filtering |-> "none"]
    /\ totals = NoTotals
    /\ mKeys = {}
    /\ synced_keys = {}
    /\ InitNoProject
    /\ InitNoEnrich

\* No run of the pipeline: its variables keep these values
InitNoPipeline ==
    /\ InitNoIssue
    /\ InitSearchLog
    /\ InitNoStore
    /\ prog = "none"
    /\ mPc = "none"
    /\ mOut = "none"
    /\ mIssues = << >>
    /\ metrics = << >>
    /\ enhanced_issues = << >>
    /\ ci = 0
    /\ cq = "none"
    /\ commit_search_available = "None"
    /\ rk = 0
    /\ report = "none"
    /\ synced = -1
    /\ stageOut = "none"
    /\ stageStarts = << >>
    /\ sigLog = << >>

InitFetchVars ==
    /\ fPc = "idle"
    /\ page = 0
    /\ issues = << >>
    /\ fErr = "none"
    /\ pageLog = << >>
    /\ saw422 = FALSE
    /\ sig = NoSignal

Init ==
    /\ now = 0
    /\ cache = << >>
    /\ interrupted = FALSE
    /\ handler = "flag"
    /\ original_signal_handler = "default"
    /\ srv = [mode |-> "any", total |-> 0, pulls |-> "none",
              strategic |-> "none", detail |-> "ok"]
    /\ InitRequest
    /\ InitFetchVars
    /\ InitNoPipeline
    /\ InitNoTrend
    /\ limit = 0

Next ==
    \/ \E k \in 1..MaxKey : ClientCall(k)
    \/ ClientReturn
    \/ MR_Tick
    \/ MR_Retry
    \/ SignalFlag
    \/ StageReset
    \/ \E d \in {1, cache_expiry_days - 1} : AdvanceClock(d)

Spec == Init /\ [][Next]_vars

----------------------------------------------------------------------------
(* fetch_issues. The runs are those in which random.random() draws no issue
   for the sample log (line 512): _log_structured_issue_sample, which catches
   whatever its own requests raise (735), is not entered. A SIGINT that
   arrives while session.get of a page is blocking only sets the flag; the
   call completes. This is the flag being set between FetchLoopTop, which
   takes the first answer, and FetchBatch, which handles the batch. *)

\* The call of _make_request is over, its result taken by the caller
RequestTaken ==
    /\ mrPc' = "idle"
    /\ mrKey' = 0
    /\ mrRet' = NoResult
    /\ netLog' = << >>
    /\ startHit' = NoEntry
    /\ waitSig' = "none"
    /\ UNCHANGED << mrTick, mrTicks, lastOk >>

\* _setup_interrupt_handler: signal.signal returns the handler it replaces
setup_interrupt_handler ==
    /\ original_signal_handler' = handler
    /\ handler' = "flag"

\* _restore_interrupt_handler
restore_interrupt_handler ==
    IF original_signal_handler # "none"
    THEN /\ handler' = original_signal_handler
         /\ original_signal_handler' = "none"
    ELSE UNCHANGED << handler, original_signal_handler >>

\* Lines 535-566, the ways out of the page loop, with iss the list collected:
\*   "break"       the loop ended; line 537 divides by len(issues) inside the try
\*   "interrupted" except InterruptedException (539-550)
\*   "http_error"  an HTTPError of _make_request passes through
\* then the finally block restores the handler, and on the first two ways
\* line 563 divides by len(issues) again before 'return issues'.
\* fetch_issues with the restore in the normal path instead of a finally
\* block: an exception that leaves the loop keeps the stage's handler
fetch_exit_no_finally(iss, how) ==
    /\ issues' = iss
    /\ IF how = "http_error"
       THEN UNCHANGED << handler, original_signal_handler >>
       ELSE restore_interrupt_handler
    /\ IF how = "http_error"
       THEN fPc' = "raised" /\ fErr' = "HTTPError"
       ELSE IF Len(iss) = 0
       THEN fPc' = "raised" /\ fErr' = "ZeroDivisionError"
       ELSE fPc' = "returned" /\ fErr' = "none"

fetch_exit(iss, how) ==
    /\ issues' = iss
    /\ restore_interrupt_handler
    /\ IF how = "http_error"
       THEN fPc' = "raised" /\ fErr' = "HTTPError"
       ELSE IF Len(iss) = 0
       THEN fPc' = "raised" /\ fErr' = "ZeroDivisionError"
       ELSE fPc' = "returned" /\ fErr' = "none"

\* Lines 449-467: the call begins; the handler of the stage is installed.
\* The flag is left as it is.
FetchStart ==
    /\ fPc = "idle"
    /\ mrPc = "idle"
    /\ mPc \in {"none", "fetch"}
    /\ issues' = << >>
    /\ page' = 1
    /\ setup_interrupt_handler
    /\ fPc' = "top"
    /\ stageStarts' = Append(stageStarts, [stage |-> "fetch", flag |-> interrupted, prev |-> handler])
    /\ UNCHANGED << now, cache, interrupted, srv, issueVars, storeVars, trendVars, csLog, reqVars,
                    limit, fErr, pageLog, saw422, sig, pipeVars, sigLog >>

\* Variant of the top of the page loop without _check_interrupted
FetchLoopTop_unchecked ==
    /\ fPc = "top"
    /\ IF page > PageLimit
       THEN /\ fetch_exit(issues, "break")
            /\ UNCHANGED << cache, reqVars, page, pageLog >>
       ELSE /\ \E r \in Responses(page) :
                 /\ make_request_begin(page, r)
                 /\ ObserveResponse(page, r)
            /\ ObserveStart(page)
            /\ pageLog' = Append(pageLog, page)
            /\ fPc' = "wait"
            /\ UNCHANGED << handler, original_signal_handler, page, issues, fErr >>
    /\ UNCHANGED << now, interrupted, srv, issueVars, storeVars, trendVars, csLog, limit, saw422, sig,
                    pipeVars, stageStarts, sigLog >>

\* Lines 477-501: top of the page loop: _check_interrupted, the page ceiling,
\* then _make_request for the page, up to its first flag read.
FetchLoopTop ==
    /\ fPc = "top"
    /\ IF interrupted
       THEN /\ fetch_exit(issues, "interrupted")
            /\ UNCHANGED << cache, reqVars, page, pageLog >>
       ELSE IF page > PageLimit
       THEN /\ fetch_exit(issues, "break")
            /\ UNCHANGED << cache, reqVars, page, pageLog >>
       ELSE /\ \E r \in Responses(page) :
                 /\ make_request_begin(page, r)
                 /\ ObserveResponse(page, r)
            /\ ObserveStart(page)
            /\ pageLog' = Append(pageLog, page)
            /\ fPc' = "wait"
            /\ UNCHANGED << handler, original_signal_handler, page, issues, fErr >>
    /\ UNCHANGED << now, interrupted, srv, issueVars, storeVars, trendVars, csLog, limit, saw422, sig,
                    pipeVars, stageStarts, sigLog >>

\* Variant of the loop body that reads the flag before keeping the batch
fetch_batch_checks_flag(raw) ==
    IF interrupted
    THEN /\ fetch_exit(issues, "interrupted")
         /\ page' = page
    ELSE LET filtered_batch == SelectSeq(raw, LAMBDA it : ~IsPull(it))
             collected == issues \o filtered_batch
         IN  IF Len(raw) = 0
             THEN /\ fetch_exit(issues, "break")
                  /\ page' = page
             ELSE /\ page' = page + 1
                  /\ IF limit # 0 /\ Len(collected) >= limit
                     THEN fetch_exit(SubSeq(collected, 1, limit), "break")
                     ELSE IF Len(raw) < PerPage
                     THEN fetch_exit(collected, "break")
                     ELSE /\ issues' = collected
                          /\ fPc' = "top"
                          /\ UNCHANGED << handler, original_signal_handler, fErr >>

\* Lines 501-533: what the loop does with raw_batch, the value of _make_request
fetch_batch(raw) ==
    LET filtered_batch == SelectSeq(raw, LAMBDA it : ~IsPull(it))
        collected == issues \o filtered_batch
    IN  IF Len(raw) = 0
        THEN /\ fetch_exit(issues, "break")
             /\ page' = page
        ELSE /\ page' = page + 1
             /\ IF limit # 0 /\ Len(collected) >= limit
                THEN fetch_exit(SubSeq(collected, 1, limit), "break")
                ELSE IF Len(raw) < PerPage
                THEN fetch_exit(collected, "break")
                ELSE /\ issues' = collected
                     /\ fPc' = "top"
                     /\ UNCHANGED << handler, original_signal_handler, fErr >>

\* Line 501 onwards: _make_request has ended: its exception leaves the loop,
\* its value is the raw batch of the page.
FetchBatch ==
    /\ fPc = "wait"
    /\ mrPc = "done"
    /\ RequestTaken
    /\ saw422' = (saw422 \/ mrRet.status = 422)
    /\ IF mrRet.kind = "interrupted"
       THEN fetch_exit(issues, "interrupted") /\ page' = page
       ELSE IF mrRet.kind = "http_error"
       THEN fetch_exit(issues, "http_error") /\ page' = page
       ELSE fetch_batch(mrRet.data)
    /\ UNCHANGED << now, cache, interrupted, srv, issueVars, storeVars, trendVars, csLog, limit, pageLog, sig,
                    pipeVars, stageStarts, sigLog >>

\* A repository listing of f full pages and a last page of t items
Listings ==
    { [mode |-> "listing", total |-> f * PerPage + t, pulls |-> pl,
       strategic |-> "none", detail |-> "ok"] :
          f \in 0..MaxFullPages, t \in {0, 1, ShortPage}, pl \in {"none", "alt", "all"} }

\* A cache that holds the first w pages of the listing l, written today
WarmCache(l, w) ==
    [p \in 1..w |->
        [data |-> LET lo == (p - 1) * PerPage
                      n == Min(PerPage, Max(0, l.total - lo))
                  IN  [j \in 1..n |-> lo + j],
         mtime |-> 0]]

InitFetch ==
    /\ now = 0
    /\ srv \in Listings
    /\ \E w \in 0..MaxWarm : cache = WarmCache(srv, w)
    /\ interrupted = FALSE
    /\ handler = "default"
    /\ original_signal_handler = "none"
    /\ InitRequest
    /\ InitFetchVars
    /\ InitNoPipeline
    /\ InitNoTrend
    /\ limit \in {0, 1, MidLimit}

NextFetch ==
    \/ FetchStart
    \/ FetchLoopTop
    \/ FetchBatch
    \/ MR_Tick
    \/ MR_Retry
    \/ SignalFlag

FetchSpec == InitFetch /\ [][NextFetch]_vars

\* Upstreams that answer every page number with a full page of items
EndlessListings ==
    { [mode |-> "endless", total |-> 0, pulls |-> pl,
       strategic |-> "none", detail |-> "ok"] : pl \in {"none", "alt", "all"} }

\* fetch_issues without item limit is called against such an upstream
InitCeilingFull ==
    /\ now = 0
    /\ srv \in EndlessListings
    /\ cache = << >>
    /\ interrupted = FALSE
    /\ handler = "default"
    /\ original_signal_handler = "none"
    /\ InitRequest
    /\ InitFetchVars
    /\ InitNoPipeline
    /\ InitNoTrend
    /\ limit = 0

NextCeiling ==
    \/ FetchLoopTop
    \/ FetchBatch
    \/ MR_Tick
    \/ MR_Retry

NextCeilingFull ==
    \/ FetchStart
    \/ NextCeiling

\* The whole call, from its first page on
CeilingFullSpec == InitCeilingFull /\ [][NextCeilingFull]_vars

\* The issues among the first n pages of an endless upstream
FirstIssues(n) ==
    SelectSeq([j \in 1..(n * PerPage) |-> j], LAMBDA it : ~IsPull(it))

\* The call is at the top of its loop after n iterations, each of which
\* fetched a full page from the upstream
AfterPages(n) ==
    /\ now = 0
    /\ cache = [p \in 1..n |-> [data |-> PageItems(p), mtime |-> 0]]
    /\ interrupted = FALSE
    /\ handler = "flag"
    /\ original_signal_handler = "default"
    /\ mrPc = "idle"
    /\ mrKey = 0
    /\ mrTick = 0
    /\ mrTicks = 0
    /\ mrRet = NoResult
    /\ netLog = << >>
    /\ lastOk = [p \in 1..n |-> PageItems(p)]
    /\ startHit = NoEntry
    /\ waitSig = "none"
    /\ fPc = "top"
    /\ page = n + 1
    /\ issues = FirstIssues(n)
    /\ fErr = "none"
    /\ pageLog = [p \in 1..n |-> p]
    /\ saw422 = FALSE
    /\ sig = NoSignal
    /\ InitNoIssue
    /\ InitSearchLog
    /\ InitNoStore
    /\ InitNoTrend
    /\ prog = "none"
    /\ mPc = "none"
    /\ mOut = "none"
    /\ mIssues = << >>
    /\ metrics = << >>
    /\ enhanced_issues = << >>
    /\ ci = 0
    /\ cq = "none"
    /\ commit_search_available = "None"
    /\ rk = 0
    /\ report = "none"
    /\ synced = -1
    /\ stageOut = "none"
    /\ stageStarts = << [stage |-> "fetch", flag |-> FALSE, prev |-> "default"] >>
    /\ sigLog = << >>
    /\ limit = 0

\* Iterations of the loop already made when the ceiling comes into view
CeilingStart == 497

\* The call against an endless upstream, taken up after CeilingStart pages
InitCeiling ==
    /\ srv \in EndlessListings
    /\ AfterPages(CeilingStart)

CeilingSpec == InitCeiling /\ [][NextCeiling]_vars

----------------------------------------------------------------------------
(* The per-issue stages: calculate_cycle_times of the analyzer and the detail
   loop of sync_issues_to_json. The issues are open ones, so that
   analyze_stage_segments (closed issues only) is not entered, and the token
   lacks the pull-request scope, so that fetch_pull_requests_for_issue
   returns at once. *)

\* Variant of the exit that hands back nothing when interrupted
calc_exit_discards(how) ==
    /\ restore_interrupt_handler
    /\ stageOut' = how
    /\ mPc' = "calced"
    /\ metrics' = IF how = "interrupted" THEN << >> ELSE metrics

\* Lines 1390-1403: the loop is over or InterruptedException was caught; the
\* finally block restores the handler and metrics is returned
calc_exit(how) ==
    /\ restore_interrupt_handler
    /\ stageOut' = how
    /\ mPc' = "calced"
    /\ metrics' = metrics

\* Lines 1293-1295: the flag is reset, the handler of the stage installed
CalcStart ==
    /\ mPc = "calc_start"
    /\ prog = "analyzer"
    /\ metrics' = << >>
    /\ interrupted' = FALSE
    /\ setup_interrupt_handler
    /\ ci' = 0
    /\ stageStarts' = Append(stageStarts, [stage |-> "calc", flag |-> interrupted', prev |-> handler])
    /\ mPc' = "calc"
    /\ UNCHANGED << now, cache, srv, issueVars, storeVars, trendVars, csLog, reqVars, fetchVars, sig, sigLog,
                    prog, mOut, mIssues, enhanced_issues, cq,
                    commit_search_available, rk, report, synced, stageOut >>

\* Lines 1299-1312 and 1104: the head of the loop for issue i: the flag is
\* read every CheckEvery issues; extract_work_start_date returns None at once
\* when the flag is set, and the record of the issue is appended all the same
CalcTop ==
    /\ mPc = "calc"
    /\ prog = "analyzer"
    /\ IF ci = Len(mIssues)
       THEN /\ calc_exit("complete")
            /\ UNCHANGED << ci, cq >>
       ELSE IF ci % CheckEvery = 0 /\ interrupted
       THEN /\ calc_exit("interrupted")
            /\ UNCHANGED << ci, cq >>
       ELSE IF interrupted
       THEN /\ metrics' = Append(metrics, [issue_number |-> mIssues[ci + 1],
                                            work_started_at |-> "None"])
            /\ ci' = ci + 1
            /\ UNCHANGED << mPc, cq, stageOut, handler, original_signal_handler >>
       ELSE /\ mPc' = "issue_req"
            /\ cq' = "events"
            /\ UNCHANGED << metrics, ci, stageOut, handler, original_signal_handler >>
    /\ UNCHANGED << now, cache, interrupted, srv, issueVars, storeVars, trendVars, csLog, reqVars, fetchVars, sig,
                    stageStarts, sigLog, prog, mOut, mIssues, enhanced_issues,
                    commit_search_available, rk, report, synced >>

\* sync_issues.py 1094-1112: the keys every enhanced_issue carries, the
\* fetch of each having succeeded or not
EnhancedKeys == {"timeline_events", "commits", "pull_requests"}

\* sync_issues.py 1114-1120: on InterruptedException the issues enhanced so
\* far replace the list; the finally block restores the handler
detail_exit(how) ==
    /\ restore_interrupt_handler
    /\ stageOut' = how
    /\ mIssues' = IF how = "interrupted" THEN enhanced_issues ELSE mIssues
    /\ mKeys' = IF how = "interrupted" THEN EnhancedKeys ELSE mKeys
    /\ mPc' = "write"

\* sync_issues.py 1077-1082: the handler is installed; the flag is not reset
DetailStart ==
    /\ mPc = "calc_start"
    /\ prog = "syncer"
    /\ setup_interrupt_handler
    /\ enhanced_issues' = << >>
    /\ ci' = 0
    /\ stageStarts' = Append(stageStarts, [stage |-> "detail", flag |-> interrupted, prev |-> handler])
    /\ mPc' = "detail"
    /\ UNCHANGED << now, cache, interrupted, srv, issueVars, storeVars, trendVars, csLog, reqVars, fetchVars, sig, sigLog,
                    prog, mOut, mIssues, metrics, cq,
                    commit_search_available, rk, report, synced, stageOut >>

\* sync_issues.py 1083-1092: the head of the loop for issue i
DetailTop ==
    /\ mPc = "detail"
    /\ IF ci = Len(mIssues)
       THEN /\ detail_exit("complete")
            /\ UNCHANGED cq
       ELSE IF ci % CheckEvery = 0 /\ interrupted
       THEN /\ detail_exit("interrupted")
            /\ UNCHANGED cq
       ELSE /\ mPc' = "issue_req"
            /\ cq' = "events"
            /\ UNCHANGED << mIssues, mKeys, stageOut, handler, original_signal_handler >>
    /\ UNCHANGED << now, cache, interrupted, srv, issueVars, storeVars, tPc, closed_issues, monthly_avg, labels, verdict, totals, projectVars, enrichVars,
                    synced_keys, csLog, reqVars, fetchVars, sig,
                    stageStarts, sigLog, prog, mOut, metrics, enhanced_issues, ci,
                    commit_search_available, rk, report, synced >>

\* The identity of the request cq made for issue number n
RequestKey(n) ==
    IF cq = "events" THEN IssueKey(n, 0)
    ELSE IF cq = "probe" THEN ProbeKey
    ELSE IssueKey(n, 1)

\* fetch_issue_events (746-749), _test_commit_search_capability (751-783) and
\* fetch_commits_for_issue (785-817) call _make_request
IssueRequest ==
    /\ mPc = "issue_req"
    /\ mrPc = "idle"
    /\ LET k == RequestKey(mIssues[ci + 1])
       IN  /\ \E r \in Responses(k) :
                /\ make_request_begin(k, r)
                /\ ObserveResponse(k, r)
           /\ ObserveStart(k)
    /\ mPc' = "issue_wait"
    /\ csLog' = [csLog EXCEPT !.probes = IF cq = "probe" THEN @ + 1 ELSE @]
    /\ UNCHANGED << now, interrupted, handler, original_signal_handler, srv,
                    issueVars, storeVars, trendVars, fetchVars, sig, stageStarts, sigLog,
                    prog, mOut, mIssues, metrics, enhanced_issues, ci, cq,
                    commit_search_available, rk, report, synced, stageOut >>

\* Variant in which an interrupted request skips the record of the issue
issue_done_skips_interrupted ==
    /\ ci' = ci + 1
    /\ cq' = "none"
    /\ IF prog = "analyzer"
       THEN /\ metrics' = IF mrRet.kind = "interrupted" THEN metrics
                          ELSE Append(metrics, [issue_number |-> mIssues[ci + 1],
                                                work_started_at |-> "inferred"])
            /\ mPc' = "calc"
            /\ UNCHANGED enhanced_issues
       ELSE /\ enhanced_issues' = Append(enhanced_issues, mIssues[ci + 1])
            /\ mPc' = "detail"
            /\ UNCHANGED metrics

\* The record of issue i is appended and the loop goes on with i + 1
issue_done ==
    /\ ci' = ci + 1
    /\ cq' = "none"
    /\ IF prog = "analyzer"
       THEN /\ metrics' = Append(metrics, [issue_number |-> mIssues[ci + 1],
                                            work_started_at |-> "inferred"])
            /\ mPc' = "calc"
            /\ UNCHANGED enhanced_issues
       ELSE /\ enhanced_issues' = Append(enhanced_issues, mIssues[ci + 1])
            /\ mPc' = "detail"
            /\ UNCHANGED metrics

\* One more request is made for the same issue
issue_next(q) ==
    /\ cq' = q
    /\ mPc' = "issue_req"
    /\ UNCHANGED << ci, metrics, enhanced_issues >>

\* Variant of lines 1127 and 794-795 that searches whatever the flag says
after_events_ungated ==
    issue_next(IF commit_search_available = "None" THEN "probe" ELSE "commits")

\* Lines 1127, 788-795: after the events, the commit search follows unless
\* it is known not to work; the probe comes first when nothing is known yet
after_events ==
    IF commit_search_available = "False"
    THEN issue_done
    ELSE issue_next(IF commit_search_available = "None"
                    THEN "probe" ELSE "commits")

\* A per-issue call of _make_request has ended. Whatever it raised is caught
\* by its caller: HTTPError and InterruptedException alike (1108-1113,
\* 1127-1137; sync_issues.py 1094-1105).
\*   events:  the commit search follows unless it is known not to work
\*   probe:   any exception marks the commit search unavailable (773-783)
\*   commits: an HTTPError 422 or 403 disables the search (806-810)
IssueRequestDone ==
    /\ mPc = "issue_wait"
    /\ mrPc = "done"
    /\ RequestTaken
    /\ IF cq = "events"
       THEN /\ UNCHANGED commit_search_available
            /\ after_events
       ELSE IF cq = "probe"
       THEN IF mrRet.kind = "value"
            THEN commit_search_available' = "True" /\ issue_next("commits")
            ELSE commit_search_available' = "False" /\ issue_done
       ELSE /\ commit_search_available' =
                  IF mrRet.kind = "http_error" /\ mrRet.status \in {422, 403}
                  THEN "False" ELSE commit_search_available
            /\ issue_done
    /\ csLog' = [csLog EXCEPT
                    !.probe422 = @ \/ (cq = "probe" /\ mrRet.status = 422),
                    !.off = IF @ = "no" /\ commit_search_available' = "False"
                            THEN cq ELSE @,
                    !.skipped = @ \/ (cq = "events" /\ cq' = "none")]
    /\ UNCHANGED << now, cache, interrupted, handler, original_signal_handler,
                    srv, issueVars, storeVars, trendVars, fetchVars, sig, stageStarts, sigLog,
                    prog, mOut, mIssues, rk, report, synced, stageOut >>

\* sync_issues.py 1122-1146: the JSON file is written from 'issues'
DetailWrite ==
    /\ mPc = "write"
    /\ synced' = Len(mIssues)
    /\ synced_keys' = mKeys
    /\ mOut' = "synced"
    /\ mPc' = "end"
    /\ UNCHANGED << now, cache, interrupted, handler, original_signal_handler, srv, issueVars, storeVars, tPc, closed_issues, monthly_avg, labels, verdict, totals, projectVars, enrichVars,
                    mKeys, csLog,
                    reqVars, fetchVars, sig, stageStarts, sigLog,
                    prog, mIssues, metrics, enhanced_issues, ci, cq,
                    commit_search_available, rk, report, stageOut >>

----------------------------------------------------------------------------
(* The pipeline: main of the analyzer (3161-3214) and sync_issues_to_json of
   the syncer (sync_issues.py 1052-1150), which runs the same stages up to the
   strategic filter. Both call fetch_issues first: FetchStart. *)

\* The run ends: how is the branch of main that ended it
main_end(how) ==
    /\ mOut' = how
    /\ mPc' = "end"

\* Lines 3163-3167: fetch_issues is over. What it raised reaches
\* 'except Exception'; an empty list ends the run; else the stages go on.
MainFetched ==
    /\ mPc = "fetch"
    /\ fPc \in {"returned", "raised"}
    /\ IF fPc = "raised"
       THEN main_end("error") /\ UNCHANGED mIssues
       ELSE IF Len(issues) = 0
       THEN main_end("no_issues") /\ UNCHANGED mIssues
       ELSE mIssues' = issues /\ mPc' = "enrich" /\ UNCHANGED mOut
    /\ fPc' = "closed"
    /\ page' = 0
    /\ issues' = << >>
    /\ fErr' = "none"
    /\ pageLog' = << >>
    /\ saw422' = FALSE
    /\ sig' = NoSignal
    /\ UNCHANGED << now, cache, interrupted, handler, original_signal_handler, srv, issueVars, storeVars, trendVars, csLog,
                    reqVars, limit, stageStarts, sigLog,
                    prog, metrics, enhanced_issues, ci, cq,
                    commit_search_available, rk, report, synced, stageOut >>

\* Lines 3169-3171: enrich_issues_with_project_data. Its GraphQL requests do
\* not go through _make_request, their errors are caught (1024), and the
\* issues come back in the same order.
MainEnrich ==
    /\ mPc = "enrich"
    /\ mPc' = "filter"
    /\ UNCHANGED << now, cache, interrupted, handler, original_signal_handler, srv, issueVars, storeVars, trendVars, csLog,
                    reqVars, fetchVars, sig, stageStarts, sigLog,
                    prog, mOut, mIssues, metrics, enhanced_issues, ci, cq,
                    commit_search_available, rk, report, synced, stageOut >>

\* Lines 3173-3181: the strategic filter; nothing left ends the run
MainFilter ==
    /\ mPc = "filter"
    /\ LET kept == SelectSeq(mIssues, is_strategic_work)
       IN  /\ mIssues' = kept
           /\ IF Len(kept) = 0
              THEN main_end("no_strategic")
              ELSE mPc' = "calc_start" /\ UNCHANGED mOut
    /\ UNCHANGED << now, cache, interrupted, handler, original_signal_handler, srv, issueVars, storeVars, trendVars, csLog,
                    reqVars, fetchVars, sig, stageStarts, sigLog,
                    prog, metrics, enhanced_issues, ci, cq,
                    commit_search_available, rk, report, synced, stageOut >>

\* Lines 3184-3188: no metrics, no report
MainCalced ==
    /\ mPc = "calced"
    /\ IF Len(metrics) = 0
       THEN main_end("no_metrics")
       ELSE mPc' = "report_start" /\ UNCHANGED mOut
    /\ UNCHANGED << now, cache, interrupted, handler, original_signal_handler, srv, issueVars, storeVars, trendVars, csLog,
                    reqVars, fetchVars, sig, stageStarts, sigLog,
                    prog, mIssues, metrics, enhanced_issues, ci, cq,
                    commit_search_available, rk, report, synced, stageOut >>

\* generate_report, lines 2645-2647: the flag is reset, the handler installed
ReportStart ==
    /\ mPc = "report_start"
    /\ interrupted' = FALSE
    /\ setup_interrupt_handler
    /\ rk' = 0
    /\ stageStarts' = Append(stageStarts, [stage |-> "report", flag |-> interrupted', prev |-> handler])
    /\ mPc' = "report"
    /\ UNCHANGED << now, cache, srv, issueVars, storeVars, trendVars, csLog, reqVars, fetchVars, sig, sigLog,
                    prog, mOut, mIssues, metrics, enhanced_issues, ci, cq,
                    commit_search_available, report, synced, stageOut >>

\* The files on disk once the k-th check of generate_report was passed and the
\* work up to the next check done: CSV and JSON data after the 2nd (2690,
\* 2731), the charts after the 4th (2800-2808), the HTML report after the 6th
\* (2826)
FilesAfter(k) ==
    IF k >= 6 THEN "full"
    ELSE IF k >= 4 THEN "charts"
    ELSE IF k >= 2 THEN "data"
    ELSE "none"

\* generate_report, one _check_interrupted (2651, 2687, 2742, 2762, 2811,
\* 2817) and the work that follows it; InterruptedException is caught at 2873
\* and the finally block restores the handler
ReportStep ==
    /\ mPc = "report"
    /\ rk < 6
    /\ IF interrupted
       THEN /\ restore_interrupt_handler
            /\ stageOut' = "interrupted"
            /\ main_end("report")
            /\ UNCHANGED << rk, report >>
       ELSE /\ rk' = rk + 1
            /\ report' = FilesAfter(rk + 1)
            /\ UNCHANGED << handler, original_signal_handler, stageOut, mOut, mPc >>
    /\ UNCHANGED << now, cache, interrupted, srv, issueVars, storeVars, trendVars, csLog, reqVars, fetchVars, sig,
                    stageStarts, sigLog, prog, mIssues, metrics, enhanced_issues,
                    ci, cq, commit_search_available, synced >>

\* generate_report, lines 2876-2880: the report is complete
ReportExit ==
    /\ mPc = "report"
    /\ rk = 6
    /\ restore_interrupt_handler
    /\ stageOut' = "complete"
    /\ main_end("report")
    /\ UNCHANGED << now, cache, interrupted, srv, issueVars, storeVars, trendVars, csLog, reqVars, fetchVars, sig,
                    stageStarts, sigLog, prog, mIssues, metrics, enhanced_issues,
                    ci, cq, commit_search_available, rk, report, synced >>

\* SIGINT while no stage handler is installed: KeyboardInterrupt is raised in
\* the pipeline and caught at 3209 ("No report generated"; the syncer's main:
\* "No data synced")
SignalDefault ==
    /\ handler = "default"
    /\ mPc \notin {"none", "end"}
    /\ main_end("keyboard")
    /\ sigLog' = Append(sigLog, [at |-> mPc, i |-> ci, k |-> rk, h |-> "default"])
    /\ UNCHANGED << now, cache, interrupted, handler, original_signal_handler, srv, issueVars, storeVars, trendVars, csLog,
                    reqVars, fetchVars, sig, stageStarts,
                    prog, mIssues, metrics, enhanced_issues, ci, cq,
                    commit_search_available, rk, report, synced, stageOut >>

\* The repositories of the pipeline runs: a listing of one short page or of a
\* full and a short page, or an empty one
Repositories ==
    { [mode |-> "repo", total |-> t, pulls |-> pl, strategic |-> st, detail |-> d] :
          t \in {0, ShortPage, PerPage + ShortPage}, pl \in {"none", "alt"},
          st \in {"none", "some"},
          d \in {"ok", "limited", "nosearch", "forbidden"} }

InitPipeline ==
    /\ now = 0
    /\ srv \in Repositories
    /\ cache = << >>
    /\ interrupted = FALSE
    /\ handler = "default"
    /\ original_signal_handler = "none"
    /\ InitRequest
    /\ InitFetchVars
    /\ limit = 0
    /\ InitNoIssue
    /\ InitSearchLog
    /\ InitNoStore
    /\ InitNoTrend
    /\ prog \in {"analyzer", "syncer"}
    /\ mPc = "fetch"
    /\ mOut = "none"
    /\ mIssues = << >>
    /\ metrics = << >>
    /\ enhanced_issues = << >>
    /\ ci = 0
    /\ cq = "none"
    /\ commit_search_available = "None"
    /\ rk = 0
    /\ report = "none"
    /\ synced = -1
    /\ stageOut = "none"
    /\ stageStarts = << >>
    /\ sigLog = << >>

NextPipeline ==
    \/ FetchStart
    \/ FetchLoopTop
    \/ FetchBatch
    \/ MR_Tick
    \/ MR_Retry
    \/ SignalFlag
    \/ SignalDefault
    \/ MainFetched
    \/ MainEnrich
    \/ MainFilter
    \/ CalcStart
    \/ CalcTop
    \/ DetailStart
    \/ DetailTop
    \/ IssueRequest
    \/ IssueRequestDone
    \/ DetailWrite
    \/ MainCalced
    \/ ReportStart
    \/ ReportStep
    \/ ReportExit

PipeSpec == InitPipeline /\ [][NextPipeline]_vars

----------------------------------------------------------------------------
(* One issue in the loop of calculate_cycle_times (1300-1325): the work start
   is inferred by extract_work_start_date (1096-1164) and the cycle time is
   computed from it. A timestamp is a day number, or BadTime for a string
   that datetime.fromisoformat rejects. *)

\* Days are numbered 0..MaxTime
MaxTime == 2

\* A timestamp string that datetime.fromisoformat rejects (ValueError)
BadTime == 0 - 2

Times == 0..MaxTime

Stamps == Times \cup {BadTime}

\* str.lower() on the label names that occur
lower(name) ==
    CASE name = "Started" -> "started"
      [] name = "In Progress" -> "in progress"
      [] OTHER -> name

\* Line 1145: the label names that count as work in progress
ProgressLabels == {"in progress", "in-progress", "started", "working"}

\* Lines 1117-1121: the first 'assigned' event ends the scan; a timestamp
\* that does not parse raises, the loop is left and nothing is appended
RECURSIVE first_assigned(_)
first_assigned(evs) ==
    IF evs = << >> THEN NoTime
    ELSE IF Head(evs).event = "assigned"
         THEN IF Head(evs).created_at = BadTime THEN NoTime
              ELSE Head(evs).created_at
         ELSE first_assigned(Tail(evs))

\* Lines 1141-1148: the first 'labeled' event whose label is an in-progress
\* synonym ends the scan
RECURSIVE first_labeled(_)
first_labeled(evs) ==
    IF evs = << >> THEN NoTime
    ELSE IF /\ Head(evs).event = "labeled"
            /\ lower(Head(evs).label) \in ProgressLabels
         THEN IF Head(evs).created_at = BadTime THEN NoTime
              ELSE Head(evs).created_at
         ELSE first_labeled(Tail(evs))

\* Lines 1108-1113: what the events call leaves in 'events'; an exception
\* leaves None, which is as false as an empty list
events_or_none(ev) == IF ev.raised THEN << >> ELSE ev.list

\* Lines 1116-1123: the assignment signal is read only when the issue has an
\* assignee now
assigned_candidate(iss, ev) ==
    IF iss.assignee /\ events_or_none(ev) # << >>
    THEN first_assigned(events_or_none(ev)) ELSE NoTime

\* Variant of line 1131 that reads the last commit of the list
commit_candidate_last(cms, csa) ==
    IF csa # "False" /\ cms # << >> /\ cms[Len(cms)].committer # BadTime
    THEN cms[Len(cms)].committer ELSE NoTime

\* Lines 1126-1137: the commit signal: the committer date of commits[0],
\* unless the commit search is disabled
commit_candidate(cms, csa) ==
    IF csa # "False" /\ cms # << >> /\ cms[1].committer # BadTime
    THEN cms[1].committer ELSE NoTime

\* Lines 1140-1150
labeled_candidate(ev) == first_labeled(events_or_none(ev))

\* Lines 1101, 1123, 1134, 1146: work_start_candidates
work_start_candidates(iss, ev, cms, csa) ==
    {assigned_candidate(iss, ev), commit_candidate(cms, csa),
     labeled_candidate(ev)} \ {NoTime}

\* Variant of lines 1159-1162 without the upper bound
valid_dates_no_closure(iss, cands) ==
    {d \in cands : d >= iss.created_at}

\* Lines 1154-1162: a candidate is valid from the creation on and, for a
\* closed issue, up to the closure
valid_dates(iss, cands) ==
    {d \in cands : /\ d >= iss.created_at
                   /\ (iss.closed_at = NoTime \/ d <= iss.closed_at)}

\* min() of a non-empty set of days
MinOf(S) == CHOOSE d \in S : \A e \in S : d <= e

\* Variant of lines 1108-1113 that gives up on the issue when the events
\* call raises
extract_work_start_date_strict(iss, ev, cms, csa, flag) ==
    IF flag \/ ev.raised THEN NoTime
    ELSE LET valid == valid_dates(iss, work_start_candidates(iss, ev, cms, csa))
         IN  IF valid = {} THEN NoTime ELSE MinOf(valid)

\* Lines 1096-1164
extract_work_start_date(iss, ev, cms, csa, flag) ==
    IF flag THEN NoTime
    ELSE LET valid == valid_dates(iss, work_start_candidates(iss, ev, cms, csa))
         IN  IF valid = {} THEN NoTime ELSE MinOf(valid)

\* Variant of lines 1320-1325 that keeps a negative difference
cycle_time_unguarded(closed_at, started) ==
    IF closed_at # NoTime /\ started # NoTime
    THEN [null |-> FALSE, days |-> closed_at - started]
    ELSE [null |-> TRUE, days |-> 0]

\* Lines 1319-1325: cycle_time_days; null is Python's None
cycle_time(closed_at, started) ==
    IF closed_at # NoTime /\ started # NoTime /\ closed_at - started >= 0
    THEN [null |-> FALSE, days |-> closed_at - started]
    ELSE [null |-> TRUE, days |-> 0]

\* Line 1312, fast_mode false: the work start is inferred
WorkStart ==
    /\ iPc = "issue"
    /\ work_started_at' =
          extract_work_start_date(issue, events, commits,
                                  commit_search_available, interrupted)
    /\ iPc' = "started"
    /\ UNCHANGED << now, cache, interrupted, handler, original_signal_handler,
                    srv, reqVars, fetchVars, sig, pipeVars, stageStarts,
                    sigLog, csLog, storeVars, trendVars, issue, events, commits, prs,
                    cycle_time_days, stage_segments >>

\* Line 1312, fast_mode true: no work start
WorkStartSkipped ==
    /\ iPc = "issue"
    /\ work_started_at' = NoTime
    /\ iPc' = "fast"
    /\ UNCHANGED << now, cache, interrupted, handler, original_signal_handler,
                    srv, reqVars, fetchVars, sig, pipeVars, stageStarts,
                    sigLog, csLog, storeVars, trendVars, issue, events, commits, prs,
                    cycle_time_days, stage_segments >>

\* Lines 1319-1325 and the record of lines 1352-1372
CycleTime ==
    /\ iPc \in {"started", "fast"}
    /\ cycle_time_days' = cycle_time(issue.closed_at, work_started_at)
    /\ iPc' = "recorded"
    /\ UNCHANGED << now, cache, interrupted, handler, original_signal_handler,
                    srv, reqVars, fetchVars, sig, pipeVars, stageStarts,
                    sigLog, csLog, storeVars, trendVars, issue, events, commits, prs,
                    work_started_at, stage_segments >>

\* The timeline events of an issue as the upstream lists them
EventValues ==
    {[event |-> "assigned", created_at |-> t, label |-> ""] : t \in Stamps}
    \cup {[event |-> "labeled", created_at |-> t, label |-> "Started"] :
              t \in Stamps}
    \cup {[event |-> "labeled", created_at |-> 0, label |-> "bug"]}

\* Event lists of up to two events
EventLists ==
    {<< >>} \cup {<<e>> : e \in EventValues}
            \cup {<<e, f>> : e \in EventValues, f \in EventValues}

\* A commit: its committer date and its author date
CommitValues == {[committer |-> t, author |-> t] : t \in Stamps}

\* Commit lists of up to two commits
CommitLists ==
    {<< >>} \cup {<<c>> : c \in CommitValues}
            \cup {<<c, d>> : c \in CommitValues, d \in CommitValues}

\* Issues: closed ones are closed on the day of creation or later
Issues ==
    {i \in [created_at : Times, closed_at : {NoTime} \cup Times,
            assignee : BOOLEAN] :
        i.closed_at = NoTime \/ i.closed_at >= i.created_at}

InitIssue ==
    /\ now = 0
    /\ cache = << >>
    /\ interrupted \in BOOLEAN
    /\ handler = "flag"
    /\ original_signal_handler = "default"
    /\ srv = [mode |-> "any", total |-> 0, pulls |-> "none",
              strategic |-> "none", detail |-> "ok"]
    /\ InitRequest
    /\ InitFetchVars
    /\ limit = 0
    /\ InitSearchLog
    /\ InitNoStore
    /\ InitNoTrend
    /\ prog = "none"
    /\ mPc = "none"
    /\ mOut = "none"
    /\ mIssues = << >>
    /\ metrics = << >>
    /\ enhanced_issues = << >>
    /\ ci = 0
    /\ cq = "none"
    /\ commit_search_available \in {"True", "False"}
    /\ rk = 0
    /\ report = "none"
    /\ synced = -1
    /\ stageOut = "none"
    /\ stageStarts = << >>
    /\ sigLog = << >>
    /\ iPc = "issue"
    /\ issue \in Issues
    /\ events \in {[raised |-> TRUE, list |-> << >>]}
                  \cup {[raised |-> FALSE, list |-> l] : l \in EventLists}
    /\ commits \in CommitLists
    /\ prs = << >>
    /\ work_started_at = NoTime
    /\ cycle_time_days = [null |-> TRUE, days |-> 0]
    /\ stage_segments = << >>

NextIssue ==
    \/ WorkStart
    \/ WorkStartSkipped
    \/ CycleTime

IssueSpec == InitIssue /\ [][NextIssue]_vars

----------------------------------------------------------------------------
(* analyze_stage_segments (1213-1282), which calculate_cycle_times calls for
   every closed issue (line 1338). *)

\* Lines 114-122: the fields of the dataclass StageSegment, none of which has
\* a default value
StageSegmentFields ==
    {"stage_name", "start_time", "end_time", "duration_days", "stage_type",
     "is_work_time"}

\* The generated __init__ of StageSegment: the set holding the new object,
\* or the empty set when a field is missing or unknown (TypeError)
StageSegment(kw) ==
    IF DOMAIN kw = StageSegmentFields THEN {kw} ELSE {}

\* Lines 1166-1171: the first 'assigned' event; BadTime stands for the
\* ValueError of a timestamp that does not parse
RECURSIVE extract_assignment_date(_)
extract_assignment_date(evs) ==
    IF evs = << >> THEN NoTime
    ELSE IF Head(evs).event = "assigned" THEN Head(evs).created_at
         ELSE extract_assignment_date(Tail(evs))

\* Lines 1173-1182: the earliest author date of the commits
extract_first_commit_date(cms) ==
    LET dates == {cms[i].author : i \in DOMAIN cms}
    IN  IF dates = {} THEN NoTime
        ELSE IF BadTime \in dates THEN BadTime
        ELSE MinOf(dates)

\* Lines 1184-1192: the earliest creation date of the pull requests
extract_first_pr_date(ps) ==
    LET dates == {ps[i].created_at : i \in DOMAIN ps}
    IN  IF dates = {} THEN NoTime
        ELSE IF BadTime \in dates THEN BadTime
        ELSE MinOf(dates)

\* str.title() on the milestone names
title(name) ==
    CASE name = "created" -> "Created"
      [] name = "assigned" -> "Assigned"
      [] name = "development_started" -> "Development_Started"
      [] name = "review_started" -> "Review_Started"
      [] name = "closed" -> "Closed"
      [] OTHER -> name

\* Lines 1194-1211: stage type and stage name of a pair of milestones
determine_stage_type(current_milestone, next_milestone) ==
    LET key == << current_milestone, next_milestone >>
    IN  CASE key = << "created", "assigned" >> ->
                 << "wait", "Requirement Review" >>
          [] key = << "created", "development_started" >> ->
                 << "wait", "Planning & Assignment" >>
          [] key = << "created", "review_started" >> ->
                 << "wait", "Planning & Development" >>
          [] key = << "created", "closed" >> ->
                 << "wait", "Complete Lifecycle" >>
          [] key = << "assigned", "development_started" >> ->
                 << "work", "Development Planning" >>
          [] key = << "assigned", "review_started" >> ->
                 << "work", "Development" >>
          [] key = << "assigned", "closed" >> ->
                 << "work", "Development & Deployment" >>
          [] key = << "development_started", "review_started" >> ->
                 << "work", "Active Development" >>
          [] key = << "development_started", "closed" >> ->
                 << "work", "Development & Integration" >>
          [] key = << "review_started", "closed" >> ->
                 << "wait", "Code Review & Deployment" >>
          [] OTHER ->
                 << "wait",
                    title(current_milestone) \o " to " \o title(next_milestone) >>

\* list.sort(key=time) is stable: x goes behind the entries that are not later
RECURSIVE insert_by_time(_, _)
insert_by_time(x, ms) ==
    IF ms = << >> THEN << x >>
    ELSE IF Head(ms)[2] <= x[2]
         THEN << Head(ms) >> \o insert_by_time(x, Tail(ms))
         ELSE << x >> \o ms

\* Line 1255: milestones.sort(key=lambda x: x[1])
RECURSIVE sort_by_time(_)
sort_by_time(ms) ==
    IF ms = << >> THEN << >>
    ELSE insert_by_time(ms[Len(ms)], sort_by_time(SubSeq(ms, 1, Len(ms) - 1)))

\* Lines 1235-1252: the milestones in the order they are appended
milestones_of(iss, assignment_date, first_commit_date, first_pr_date) ==
    << << "created", iss.created_at >> >>
    \o (IF assignment_date # NoTime
        THEN << << "assigned", assignment_date >> >> ELSE << >>)
    \o (IF first_commit_date # NoTime
        THEN << << "development_started", first_commit_date >> >> ELSE << >>)
    \o (IF first_pr_date # NoTime
        THEN << << "review_started", first_pr_date >> >> ELSE << >>)
    \o (IF iss.closed_at # NoTime
        THEN << << "closed", iss.closed_at >> >> ELSE << >>)

\* Variant of lines 1270-1276 that passes is_work_time as well
new_segment_complete(cur, nxt) ==
    StageSegment([stage_name |-> determine_stage_type(cur[1], nxt[1])[2],
                  stage_type |-> determine_stage_type(cur[1], nxt[1])[1],
                  start_time |-> cur[2],
                  end_time |-> nxt[2],
                  duration_days |-> nxt[2] - cur[2],
                  is_work_time |->
                      determine_stage_type(cur[1], nxt[1])[1] = "work"])

\* Lines 1263-1276: the segment between two consecutive milestones; the
\* constructor is called with five keyword arguments
new_segment(cur, nxt) ==
    StageSegment([stage_name |-> determine_stage_type(cur[1], nxt[1])[2],
                  stage_type |-> determine_stage_type(cur[1], nxt[1])[1],
                  start_time |-> cur[2],
                  end_time |-> nxt[2],
                  duration_days |-> nxt[2] - cur[2]])

\* Lines 1213-1282. Any exception (the events call raising, a timestamp that
\* does not parse, the constructor's TypeError) is caught at line 1280 and
\* the empty list is returned
analyze_stage_segments(iss, ev, cms, ps) ==
    IF ev.raised THEN << >>
    ELSE LET assignment_date == extract_assignment_date(ev.list)
             first_commit_date == extract_first_commit_date(cms)
             first_pr_date == extract_first_pr_date(ps)
         IN  IF BadTime \in {assignment_date, first_commit_date, first_pr_date}
             THEN << >>
             ELSE LET ms == sort_by_time(
                               milestones_of(iss, assignment_date,
                                             first_commit_date, first_pr_date))
                      made == [i \in 1..(Len(ms) - 1) |->
                                   new_segment(ms[i], ms[i + 1])]
                  IN  IF \E i \in DOMAIN made : made[i] = {}
                      THEN << >>
                      ELSE [i \in DOMAIN made |->
                                CHOOSE seg \in made[i] : TRUE]

\* sum(...) of the durations of the segments of one stage type; a duration of
\* zero is dropped by the filter 'and seg.duration_days' and adds nothing
RECURSIVE sum_by_type(_, _)
sum_by_type(segs, stage_type) ==
    IF segs = << >> THEN 0
    ELSE (IF Head(segs).stage_type = stage_type /\ Head(segs).duration_days # 0
          THEN Head(segs).duration_days ELSE 0)
         + sum_by_type(Tail(segs), stage_type)

\* Lines 1339-1347: nothing is computed for an empty list of segments; the
\* ratio is the quotient work / (work + wait) when the sum is positive
segment_totals(segs) ==
    IF segs = << >> THEN NoTotals
    ELSE LET total_work_time == sum_by_type(segs, "work")
             total_wait_time == sum_by_type(segs, "wait")
         IN  [total_work_time |-> [null |-> FALSE, days |-> total_work_time],
              total_wait_time |-> [null |-> FALSE, days |-> total_wait_time],
              work_efficiency_ratio |->
                  IF total_work_time + total_wait_time > 0
                  THEN [null |-> FALSE, num |-> total_work_time,
                        den |-> total_work_time + total_wait_time]
                  ELSE [null |-> TRUE, num |-> 0, den |-> 1]]

\* Lines 1336-1347: the segments of a closed issue and the totals over them
AnalyzeStageSegments ==
    /\ iPc = "closed_issue"
    /\ stage_segments' = analyze_stage_segments(issue, events, commits, prs)
    /\ totals' = segment_totals(stage_segments')
    /\ iPc' = "segmented"
    /\ UNCHANGED << now, cache, interrupted, handler, original_signal_handler,
                    srv, reqVars, fetchVars, sig, pipeVars, stageStarts,
                    sigLog, csLog, storeVars, tPc, closed_issues, monthly_avg,
                    labels, verdict, projectVars, enrichVars, docVars, issue, events, commits, prs,
                    work_started_at, cycle_time_days >>

\* A pull request: its creation date
PullValues == {[created_at |-> t] : t \in Stamps}

\* Lists of up to one pull request
PullLists == {<< >>} \cup {<<q>> : q \in PullValues}

InitSegments ==
    /\ now = 0
    /\ cache = << >>
    /\ interrupted = FALSE
    /\ handler = "flag"
    /\ original_signal_handler = "default"
    /\ srv = [mode |-> "any", total |-> 0, pulls |-> "none",
              strategic |-> "none", detail |-> "ok"]
    /\ InitRequest
    /\ InitFetchVars
    /\ limit = 0
    /\ InitSearchLog
    /\ InitNoStore
    /\ InitNoTrend
    /\ prog = "none"
    /\ mPc = "none"
    /\ mOut = "none"
    /\ mIssues = << >>
    /\ metrics = << >>
    /\ enhanced_issues = << >>
    /\ ci = 0
    /\ cq = "none"
    /\ commit_search_available = "True"
    /\ rk = 0
    /\ report = "none"
    /\ synced = -1
    /\ stageOut = "none"
    /\ stageStarts = << >>
    /\ sigLog = << >>
    /\ iPc = "closed_issue"
    /\ issue \in {i \in Issues : i.closed_at # NoTime /\ ~i.assignee}
    /\ events \in {[raised |-> TRUE, list |-> << >>]}
                  \cup {[raised |-> FALSE, list |-> l] : l \in EventLists}
    /\ commits \in CommitLists
    /\ prs \in PullLists
    /\ work_started_at = NoTime
    /\ cycle_time_days = [null |-> TRUE, days |-> 0]
    /\ stage_segments = << >>

NextSegments == AnalyzeStageSegments

SegmentSpec == InitSegments /\ [][NextSegments]_vars

----------------------------------------------------------------------------
(* Properties of the request client, checked under Spec *)

\* The call in progress was answered 403 with a rate-limit indicator
RateLimited ==
    /\ Len(netLog) >= 1
    /\ netLog[1].status = 403
    /\ netLog[1].rate_limit

\* C1: a cache entry exists for a request identity only if a response to that
\* request had a 2xx status, and it holds the body of the last such response:
\* no 403, 422 or other error response (first answer or retry) creates or
\* overwrites an entry.
C1_OnlySuccessIsCached ==
    \A k \in DOMAIN cache :
        /\ k \in DOMAIN lastOk
        /\ cache[k].data = lastOk[k]

\* C1 witness: a call that waited, retried and ended on an error while an
\* (expired) entry of an earlier 2xx response is still in the cache.
C1_Witness ==
    /\ mrPc = "done"
    /\ Len(netLog) = 2
    /\ mrRet.kind = "http_error"
    /\ mrKey \in DOMAIN cache
    /\ cache[mrKey].data = lastOk[mrKey]

C3_Original ==
    /\ Len(netLog) <= 2
    /\ (mrPc = "done" /\ RateLimited /\ Len(netLog) = 2 /\ netLog[2].status >= 400) =>
            (mrRet.kind = "http_error" /\ mrRet.status = netLog[2].status)

\* C3 amended: a call issues at most two network requests, both for the same
\* identity; after a rate-limited 403 and an uninterrupted wait the request is
\* re-issued exactly once and the call ends on that answer without a second
\* wait: a 403 (rate limited or not) or another status >= 400 other than 422
\* is raised, a 422 gives the empty result, a 2xx its body.
C3_RetryOnce ==
    /\ Len(netLog) <= 2
    /\ \A i \in 1..Len(netLog) : netLog[i].key = mrKey
    /\ (mrPc \in {"tick", "retry"}) => (Len(netLog) = 1 /\ RateLimited)
    /\ (mrPc = "done" /\ RateLimited /\ mrRet.kind # "interrupted") => Len(netLog) = 2
    /\ (mrPc = "done" /\ Len(netLog) = 2) =>
          /\ RateLimited
          /\ IF netLog[2].status = 422
             THEN mrRet.kind = "value" /\ mrRet.data = << >>
             ELSE IF netLog[2].status >= 400
             THEN mrRet.kind = "http_error" /\ mrRet.status = netLog[2].status
             ELSE mrRet.kind = "value" /\ mrRet.data = lastOk[mrKey]

\* C3 witness: the retry itself was answered with a rate-limited 403.
C3_Witness ==
    /\ mrPc = "done"
    /\ Len(netLog) = 2
    /\ netLog[2].status = 403
    /\ netLog[2].rate_limit
    /\ mrRet.kind = "http_error"

\* C4 as stated: if the flag becomes set at any moment of the rate-limit wait,
\* the last tick included, the call raises the interrupted condition and the
\* retry is not issued.
C4_Original ==
    (mrPc = "done" /\ waitSig \in {"tick", "last"}) =>
        (mrRet.kind = "interrupted" /\ Len(netLog) = 1)

\* C4 amended: if the flag is set when a tick begins (set before the wait, or
\* during the wait before the last tick's sleep), the call raises the
\* interrupted condition at that tick and the retry is not issued; a flag set
\* only during the last tick's sleep is not looked at: the retry is issued and
\* the call ends on its answer.
C4_InterruptedWait ==
    /\ (mrPc = "done" /\ waitSig \in {"before", "tick"}) =>
            (mrRet.kind = "interrupted" /\ Len(netLog) = 1)
    /\ (mrPc = "done" /\ waitSig = "last") =>
            (mrRet.kind # "interrupted" /\ Len(netLog) = 2)
    /\ (mrPc = "done" /\ mrRet.kind = "interrupted") =>
            (interrupted /\ Len(netLog) = 1)

\* C4 witness: the flag was set during the wait and the call raised.
C4_Witness ==
    /\ mrPc = "done"
    /\ waitSig = "tick"
    /\ mrRet.kind = "interrupted"
    /\ Len(netLog) = 1

----------------------------------------------------------------------------
(* Properties of fetch_issues, checked under FetchSpec *)

RECURSIVE IssuesOfPages(_)
\* The issues (items that are not pull requests) of pages 1..n, in order
IssuesOfPages(n) ==
    IF n = 0 THEN << >>
    ELSE IssuesOfPages(n - 1) \o SelectSeq(PageItems(n), LAMBDA it : ~IsPull(it))

FetchOver == fPc \in {"returned", "raised"}

\* No cancellation, no HTTP error, no 422 answer in the run so far
PlainRun == sig = NoSignal /\ ~interrupted /\ fErr # "HTTPError" /\ ~saw422

\* Pages are requested in the order 1, 2, 3, ...
PagesInOrder == \A i \in 1..Len(pageLog) : pageLog[i] = i

\* Every requested page but the last one was a full page
NoPageAfterShort ==
    \A i \in 1..(Len(pageLog) - 1) : Len(PageItems(pageLog[i])) = PerPage

\* C5: without pull requests, limit and interruption, fetch_issues requests
\* pages 1, 2, 3, ... in order, stops after the first page that is empty or
\* short, and returns the items of all fetched pages in order.
C5_Original ==
    (PlainRun /\ srv.pulls = "none" /\ limit = 0) =>
        /\ PagesInOrder
        /\ NoPageAfterShort
        /\ FetchOver =>
              /\ fPc = "returned"
              /\ Len(PageItems(Len(pageLog))) < PerPage
              /\ issues = IssuesOfPages(Len(pageLog))

\* What remains of C5 when at least one item was collected
C5_NonEmptyRuns ==
    (PlainRun /\ srv.pulls = "none" /\ limit = 0) =>
        /\ PagesInOrder
        /\ NoPageAfterShort
        /\ FetchOver =>
              /\ Len(PageItems(Len(pageLog))) < PerPage
              /\ IF srv.total = 0
                 THEN fPc = "raised" /\ fErr = "ZeroDivisionError" /\ pageLog = << 1 >>
                 ELSE fPc = "returned" /\ issues = IssuesOfPages(Len(pageLog))

\* The scripted pages of sizes 100, 100, 37 give 3 fetches and 237 items
C5_Scripted ==
    /\ fPc = "returned" /\ PlainRun /\ limit = 0 /\ srv.pulls = "none"
    /\ srv.total = 2 * PerPage + ShortPage
    /\ pageLog = << 1, 2, 3 >>
    /\ Len(issues) = 2 * PerPage + ShortPage

\* C6: with a limit L > 0 fetch_issues returns exactly min(L, number of
\* issues on the fetched pages) items, the first ones in fetch order, and
\* requests no page after the one on which the count reached L.
C6_Original ==
    (PlainRun /\ limit > 0) =>
        /\ \A i \in 1..(Len(pageLog) - 1) : Len(IssuesOfPages(pageLog[i])) < limit
        /\ FetchOver =>
              /\ fPc = "returned"
              /\ Len(issues) = Min(limit, Len(IssuesOfPages(Len(pageLog))))
              /\ issues = SubSeq(IssuesOfPages(Len(pageLog)), 1, Len(issues))

\* What remains of C6 when the fetched pages hold at least one issue
C6_NonEmptyRuns ==
    (PlainRun /\ limit > 0) =>
        /\ \A i \in 1..(Len(pageLog) - 1) : Len(IssuesOfPages(pageLog[i])) < limit
        /\ FetchOver =>
              IF Len(IssuesOfPages(Len(pageLog))) = 0
              THEN fPc = "raised" /\ fErr = "ZeroDivisionError"
              ELSE /\ fPc = "returned"
                   /\ Len(issues) = Min(limit, Len(IssuesOfPages(Len(pageLog))))
                   /\ issues = SubSeq(IssuesOfPages(Len(pageLog)), 1, Len(issues))

\* Limit 150 over full pages of 100: stop after page 2 with 150 items
C6_Scripted ==
    /\ fPc = "returned" /\ PlainRun /\ limit = MidLimit /\ srv.pulls = "none"
    /\ srv.total >= 3 * PerPage
    /\ pageLog = << 1, 2 >>
    /\ Len(issues) = MidLimit

\* The flag was set while the request of page p was in flight: sig holds the
\* position of the loop at the moment the handler ran.
CancelledInPage(p) == sig.fpc = "wait" /\ sig.page = p

\* C7 as stated: a fetch over 5 full pages cancelled while page 3 is being
\* fetched returns exactly the items of the 2 completed pages, without raising.
C7_Original ==
    (FetchOver /\ srv.total = 5 * PerPage /\ limit = 0 /\ CancelledInPage(3)) =>
        /\ fPc = "returned"
        /\ issues = IssuesOfPages(2)

\* C7: a fetch without limit over full pages, cancelled while page p is
\* being fetched and ended without HTTP error, requested no page after p and
\* raises no interruption. It holds the issues of pages 1..p-1 when the flag
\* was set before the last tick of a rate-limit wait for page p or page p was
\* answered 422, and the issues of pages 1..p otherwise: a request already
\* past its last flag read completes and its items are kept. The list is
\* returned unless it is empty, in which case ZeroDivisionError is raised.
C7_CancelledMidPage ==
    \A p \in 1..(MaxFullPages + 1) :
        (/\ FetchOver /\ fErr # "HTTPError" /\ limit = 0
         /\ CancelledInPage(p) /\ Len(PageItems(p)) = PerPage) =>
            /\ pageLog = [i \in 1..p |-> i]
            /\ issues = IF sig.mr = "tick" \/ saw422
                        THEN IssuesOfPages(p - 1)
                        ELSE IssuesOfPages(p)
            /\ IF Len(issues) = 0
               THEN fPc = "raised" /\ fErr = "ZeroDivisionError"
               ELSE fPc = "returned" /\ fErr = "none"

\* Page 3 of 5 was in flight past its last flag read when the flag was set:
\* 3 pages are returned and pages 4 and 5 were never requested
C7_Witness ==
    /\ fPc = "returned" /\ srv.total = 5 * PerPage /\ limit = 0
    /\ srv.pulls = "none"
    /\ CancelledInPage(3) /\ sig.mr = "done"
    /\ pageLog = << 1, 2, 3 >>
    /\ Len(issues) = 3 * PerPage

----------------------------------------------------------------------------
(* Properties of the pipeline, checked under PipeSpec *)

Cancelled == Len(sigLog) > 0

\* The last SIGINT of the run
LastSig == sigLog[Len(sigLog)]

InPerIssueStage(at) == at \in {"calc", "detail", "issue_req", "issue_wait"}

\* C8: every stage of the analyzer and of the syncer starts with the shared
\* flag cleared, so that an interruption delivered during one stage never
\* makes a later stage stop early.
C8_Original ==
    /\ \A n \in 1..Len(stageStarts) : ~stageStarts[n].flag
    /\ (mPc \in {"calced", "write"} /\ stageOut = "interrupted") =>
           (Cancelled /\ LastSig.h = "flag" /\ InPerIssueStage(LastSig.at))

\* The stages of the analyzer do start with the flag cleared
C8_AnalyzerStages ==
    prog = "analyzer" => \A n \in 1..Len(stageStarts) : ~stageStarts[n].flag

\* The syncer's detail stage stopped at its first check on the flag left set
\* by the interrupted listing, and the JSON file holds no issue
C8_Leak ==
    /\ prog = "syncer" /\ mPc = "end" /\ synced = 0
    /\ Len(sigLog) = 1 /\ LastSig.at = "fetch" /\ LastSig.h = "flag"
    /\ stageStarts[Len(stageStarts)] = [stage |-> "detail", flag |-> TRUE, prev |-> "default"]

C9_NoReport ==
    /\ prog = "analyzer" /\ mPc = "end" /\ mOut = "keyboard"
    /\ LastSig.at = "calced" /\ Len(metrics) > 0 /\ report = "none"

\* C10: calculate_cycle_times never raises on interruption: it ends by
\* returning metrics, one record per issue of a prefix of its input, in input
\* order. When the flag was noticed the prefix stops at a multiple of
\* CheckEvery and holds every issue taken up before the SIGINT.
C10_PartialMetrics ==
    (prog = "analyzer" /\ mPc \in {"calc", "issue_req", "issue_wait", "calced"}) =>
        /\ mOut = "none"
        /\ Len(metrics) <= Len(mIssues)
        /\ \A j \in 1..Len(metrics) : metrics[j].issue_number = mIssues[j]
        /\ mPc # "calced" => Len(metrics) = ci
        /\ (mPc = "calced" /\ stageOut = "complete") => Len(metrics) = Len(mIssues)
        /\ (mPc = "calced" /\ stageOut = "interrupted") =>
              /\ Len(metrics) % CheckEvery = 0
              /\ Len(metrics) < Len(mIssues)
              /\ Cancelled /\ LastSig.h = "flag" /\ InPerIssueStage(LastSig.at)
              /\ LastSig.i <= Len(metrics)

\* The flag was set while the 4th issue waited on a rate limit: the loop
\* went on to the check at i = 10 and returned the first 10 records
C10_Witness ==
    /\ prog = "analyzer" /\ mPc = "calced" /\ stageOut = "interrupted"
    /\ LastSig.at = "issue_wait" /\ LastSig.i = 3
    /\ Len(metrics) = CheckEvery
    /\ Len(mIssues) > CheckEvery

----------------------------------------------------------------------------
(* Work start and cycle time of one issue: IssueSpec *)

\* extract_work_start_date has returned for the issue
WorkStartInferred == iPc \in {"started", "recorded"}

\* C11: every work start that extract_work_start_date returns is on or after
\* the creation of the issue and, for a closed issue, on or before its
\* closure: a candidate outside these bounds is dropped before the minimum
C11_WorkStartWithinBounds ==
    (WorkStartInferred /\ work_started_at # NoTime) =>
        /\ work_started_at >= issue.created_at
        /\ (issue.closed_at # NoTime => work_started_at <= issue.closed_at)
        /\ work_started_at \in
               work_start_candidates(issue, events, commits,
                                     commit_search_available)

\* A closed issue with a candidate after its closure and another one inside
\* the bounds, which is the work start returned
C11_Witness ==
    /\ iPc = "started"
    /\ issue.closed_at # NoTime
    /\ work_started_at # NoTime
    /\ \E d \in work_start_candidates(issue, events, commits,
                                      commit_search_available) :
           d > issue.closed_at
    /\ \E d \in work_start_candidates(issue, events, commits,
                                      commit_search_available) :
           d < issue.created_at

\* The timestamp of the first event of the list that P holds of, when there
\* is one and it parses
FirstStamp(evs, P(_)) ==
    LET hits == {i \in DOMAIN evs : P(evs[i])}
    IN  IF hits = {} THEN {}
        ELSE LET i == CHOOSE j \in hits : \A h \in hits : j <= h
             IN  {evs[i].created_at} \ {BadTime}

IsAssigned(e) == e.event = "assigned"

IsProgressLabel(e) ==
    e.event = "labeled" /\ lower(e.label) \in ProgressLabels

\* The candidate of the commit signal: the date of the first commit
FirstCommitStamp(cms) ==
    IF cms = << >> THEN {} ELSE {cms[1].committer} \ {BadTime}

\* The earliest of the stamps that lie within the bounds of the issue
EarliestValid(iss, stamps) ==
    LET ok == {d \in stamps :
                  /\ iss.created_at <= d
                  /\ (iss.closed_at = NoTime \/ d <= iss.closed_at)}
    IN  IF ok = {} THEN NoTime
        ELSE CHOOSE d \in ok : \A e \in ok : d <= e

\* C12 as stated: with the events fetched, the commit search not disabled
\* and no interrupt, each of the three signals gives its candidate whatever
\* the other fields of the issue are
C12_Original ==
    (/\ iPc = "started"
     /\ ~interrupted
     /\ ~events.raised
     /\ commit_search_available # "False") =>
        work_started_at =
            EarliestValid(issue,
                FirstStamp(events.list, IsAssigned)
                \cup FirstCommitStamp(commits)
                \cup FirstStamp(events.list, IsProgressLabel))

\* C12: extract_work_start_date returns the earliest valid candidate of the
\* three signals, where the first 'assigned' event counts only if the issue
\* has an assignee, the first commit only if the commit search is not
\* disabled, the events only if they could be fetched; with the interrupt
\* flag set it returns no work start at all
C12_GatedSignals ==
    iPc = "started" =>
        work_started_at =
            IF interrupted THEN NoTime
            ELSE EarliestValid(issue,
                    (IF issue.assignee /\ ~events.raised
                     THEN FirstStamp(events.list, IsAssigned) ELSE {})
                    \cup (IF commit_search_available # "False"
                          THEN FirstCommitStamp(commits) ELSE {})
                    \cup (IF ~events.raised
                          THEN FirstStamp(events.list, IsProgressLabel)
                          ELSE {}))

\* An issue without assignee whose only signal is an 'assigned' event within
\* the bounds: no work start is returned
C12_Witness ==
    /\ iPc = "started"
    /\ ~interrupted
    /\ ~issue.assignee
    /\ ~events.raised
    /\ FirstStamp(events.list, IsAssigned) # {}
    /\ EarliestValid(issue, FirstStamp(events.list, IsAssigned)) # NoTime
    /\ work_started_at = NoTime

\* The first event of the list that P holds of has a timestamp that does
\* not parse
FirstStampFails(evs, P(_)) ==
    /\ \E i \in DOMAIN evs : P(evs[i])
    /\ FirstStamp(evs, P) = {}

\* The candidates of the two event signals, when the events were fetched
EventStamps ==
    IF events.raised THEN {}
    ELSE (IF issue.assignee
          THEN FirstStamp(events.list, IsAssigned) ELSE {})
         \cup FirstStamp(events.list, IsProgressLabel)

\* The candidate of the commit signal, when the search is not disabled
CommitStamps ==
    IF commit_search_available # "False"
    THEN FirstCommitStamp(commits) ELSE {}

\* C18: a signal that fails (the events call raising, a timestamp of the
\* first commit or of the first matching event that does not parse) is left
\* out: extract_work_start_date still returns, and what it returns is
\* computed from the signals that did not fail
C18_FailingSignalOmitted ==
    (iPc = "started" /\ ~interrupted) =>
        /\ work_started_at \in Times \cup {NoTime}
        /\ events.raised =>
               work_started_at = EarliestValid(issue, CommitStamps)
        /\ (commits # << >> /\ commits[1].committer = BadTime) =>
               work_started_at = EarliestValid(issue, EventStamps)
        /\ (~events.raised /\ FirstStampFails(events.list, IsAssigned)) =>
               work_started_at =
                   EarliestValid(issue,
                       CommitStamps
                       \cup FirstStamp(events.list, IsProgressLabel))
        /\ (~events.raised /\ FirstStampFails(events.list, IsProgressLabel)) =>
               work_started_at =
                   EarliestValid(issue,
                       CommitStamps
                       \cup (IF issue.assignee
                             THEN FirstStamp(events.list, IsAssigned)
                             ELSE {}))

\* The events call raised and the work start comes from the first commit
C18_Witness ==
    /\ iPc = "started"
    /\ ~interrupted
    /\ events.raised
    /\ work_started_at # NoTime
    /\ work_started_at = commits[1].committer

\* C13: a recorded cycle time that is not null comes from a work start and
\* a closure that are both known, with the closure on or after the work
\* start; a negative difference is stored as null
C13_CycleTimeGuard ==
    /\ (iPc = "recorded" /\ ~cycle_time_days.null) =>
           /\ work_started_at # NoTime
           /\ issue.closed_at # NoTime
           /\ issue.closed_at >= work_started_at
           /\ cycle_time_days.days = issue.closed_at - work_started_at
    /\ \A c \in Times, w \in Times : c < w => cycle_time(c, w).null

\* A closed issue whose work started before the day of its closure
C13_Witness ==
    /\ iPc = "recorded"
    /\ ~cycle_time_days.null
    /\ cycle_time_days.days > 0

----------------------------------------------------------------------------
(* Stage segments of one closed issue: SegmentSpec *)

\* The sum of the durations of a list of segments
RECURSIVE SumDurations(_)
SumDurations(segs) ==
    IF segs = << >> THEN 0
    ELSE Head(segs).duration_days + SumDurations(Tail(segs))

\* The events were fetched and every timestamp of the issue's data parses
DataParses ==
    /\ ~events.raised
    /\ \A i \in DOMAIN events.list : events.list[i].created_at # BadTime
    /\ \A i \in DOMAIN commits : commits[i].author # BadTime
    /\ \A i \in DOMAIN prs : prs[i].created_at # BadTime

\* C14: the durations of the stage segments produced for a closed issue sum
\* to the days between its creation and its closure
C14_Original ==
    (iPc = "segmented" /\ DataParses) =>
        SumDurations(stage_segments) = issue.closed_at - issue.created_at

\* What the run gives instead: no segment for any closed issue
C14_NoSegments == iPc = "segmented" => stage_segments = << >>

\* C15: the stage segments of a closed issue are ordered by start time and
\* contiguous, the first one starts at the creation of the issue and the
\* last one ends at its closure
C15_Original ==
    (iPc = "segmented" /\ DataParses) =>
        /\ stage_segments # << >>
        /\ stage_segments[1].start_time = issue.created_at
        /\ stage_segments[Len(stage_segments)].end_time = issue.closed_at
        /\ \A i \in 1..(Len(stage_segments) - 1) :
               /\ stage_segments[i].end_time = stage_segments[i + 1].start_time
               /\ stage_segments[i].start_time <= stage_segments[i + 1].start_time

----------------------------------------------------------------------------
(* Error statuses in _make_request: Spec *)

\* This step of _make_request receives a response: the first one of the call
\* or the one of the retry
ResponseReceived ==
    \/ mrPc = "idle" /\ mrPc' # "idle" /\ netLog' # << >>
    \/ mrPc = "retry" /\ Len(netLog') = Len(netLog) + 1

\* A response that is an error other than 422 and not a rate limit
IsPlainError(e) ==
    /\ e.status >= 400
    /\ e.status # 422
    /\ ~(e.status = 403 /\ e.rate_limit)

\* C19: a response with status 403 and no rate limit text, or with any other
\* status of 400 or more except 422, ends the call in the step that receives
\* it: HTTPError is raised with that status, no wait is begun, no request
\* follows, and the cache is as it was
C19_ErrorsPropagate ==
    [][(ResponseReceived /\ IsPlainError(netLog'[Len(netLog')])) =>
          /\ mrPc' = "done"
          /\ mrRet' = [kind |-> "http_error", data |-> << >>,
                       status |-> netLog'[Len(netLog')].status]
          /\ mrTicks' = 0
          /\ cache' = cache]_vars

\* A call answered 403 without rate limit text has raised after that one
\* request
C19_Witness ==
    /\ mrPc = "done"
    /\ Len(netLog) = 1
    /\ netLog[1].status = 403
    /\ ~netLog[1].rate_limit
    /\ mrRet.kind = "http_error"
    /\ mrRet.status = 403

----------------------------------------------------------------------------
(* A 422 answer to a page request of fetch_issues: FetchSpec *)

\* A call of _make_request that ended on a 422 response returned the empty
\* result and left the cache without an entry for the request
Returned422 ==
    (mrPc = "done" /\ mrRet.status = 422) =>
        /\ mrRet.kind = "value"
        /\ mrRet.data = << >>
        /\ mrKey \notin DOMAIN cache

\* The run had a page answered 422, with no limit, signal or HTTP error
Run422 ==
    /\ FetchOver
    /\ saw422
    /\ limit = 0
    /\ sig = NoSignal
    /\ ~interrupted
    /\ fErr # "HTTPError"

\* C20: a 422 response makes _make_request return the empty result without
\* raising or caching; when it answers a page request of fetch_issues the
\* loop stops and the issues of the pages fetched before it are returned
C20_Original ==
    /\ Returned422
    /\ Run422 =>
          /\ fPc = "returned"
          /\ issues = IssuesOfPages(Len(pageLog) - 1)

\* What remains of C20 when at least one issue was collected before the 422
C20_NonEmptyRuns ==
    /\ Returned422
    /\ Run422 =>
          /\ IF IssuesOfPages(Len(pageLog) - 1) = << >>
             THEN fPc = "raised" /\ fErr = "ZeroDivisionError"
             ELSE fPc = "returned" /\ issues = IssuesOfPages(Len(pageLog) - 1)

----------------------------------------------------------------------------
(* The commit search capability in a run of the pipeline: PipeSpec *)

\* C16: once the commit search probe was answered 422, the capability is
\* recorded as unavailable and no commit search is made any more
C16_Original ==
    csLog.probe422 =>
        /\ commit_search_available = "False"
        /\ cq # "commits"

\* What the run does instead: the probe answered 422 marks the search as
\* available, and a search request follows for the issue
C16_ProbeAccepts422 ==
    csLog.probe422 => commit_search_available = "True"

\* This step sends a commit search request (the probe or a search for an
\* issue number) to the upstream
SearchRequestSent ==
    /\ ResponseReceived
    /\ netLog'[Len(netLog')].key > PageLimit
    /\ IsSearchKey(netLog'[Len(netLog')].key)

\* C17: once commit_search_available is False it stays False, no commit
\* search is attempted and no commit search request reaches the upstream
\* while it is False, and the probe is made at most once in a run
C17_SearchStaysOff ==
    /\ [](csLog.probes <= 1)
    /\ [](cq \in {"probe", "commits"} => commit_search_available # "False")
    /\ [][/\ commit_search_available = "False" =>
                 commit_search_available' = "False"
          /\ SearchRequestSent => commit_search_available # "False"]_vars

\* The search was disabled by a 403 on the search for an issue, and a later
\* issue has been completed without any commit search
C17_Witness ==
    /\ commit_search_available = "False"
    /\ csLog.off = "commits"
    /\ csLog.probes = 1
    /\ csLog.skipped

\* The search was disabled by the probe, and a later issue has been
\* completed without any commit search
C17_OffByProbe ==
    /\ commit_search_available = "False"
    /\ csLog.off = "probe"
    /\ csLog.skipped

----------------------------------------------------------------------------
(* The page ceiling of fetch_issues: CeilingSpec *)

\* The run went through the whole loop: no HTTP error and no 422 ended it
CeilingRun == FetchOver /\ fErr # "HTTPError" /\ ~saw422

\* C21: against an upstream that answers every page number with a full page,
\* fetch_issues makes at most PageLimit page requests, then stops and
\* returns the items collected
C21_Original ==
    /\ Len(pageLog) <= PageLimit
    /\ CeilingRun =>
          /\ Len(pageLog) = PageLimit
          /\ fPc = "returned"
          /\ issues = FirstIssues(PageLimit)

\* What remains of C21: the loop always stops after PageLimit requests, and
\* the issues are returned when there is one among the items
C21_CeilingHolds ==
    /\ Len(pageLog) <= PageLimit
    /\ PagesInOrder
    /\ CeilingRun =>
          /\ Len(pageLog) = PageLimit
          /\ IF srv.pulls = "all"
             THEN fPc = "raised" /\ fErr = "ZeroDivisionError"
             ELSE fPc = "returned" /\ issues = FirstIssues(PageLimit)

\* The whole call passes through the state that CeilingSpec starts in
CeilingStartReached ==
    (fPc = "top" /\ page = CeilingStart + 1 /\ ~interrupted) =>
        AfterPages(CeilingStart)

\* A stage of the pipeline is between its _setup_interrupt_handler and its
\* finally block: the listing (fetch_issues), the per-issue stage
\* (calculate_cycle_times; the syncer's detail stage) or generate_report
StageRunning ==
    \/ fPc \in {"top", "wait"}
    \/ mPc \in {"calc", "issue_req", "issue_wait", "detail", "report"}

LastStage == stageStarts[Len(stageStarts)]

C22_Interrupted ==
    /\ mPc \in {"calced", "write"} /\ stageOut = "interrupted" /\ handler = "default"

C22_Complete ==
    /\ prog = "analyzer" /\ mPc = "end" /\ mOut = "report" /\ stageOut = "complete"
    /\ Len(stageStarts) = 3 /\ handler = "default"

----------------------------------------------------------------------------
(* Cache store: the files under .cache/{owner}/{repo} *)

\* The params dicts of the requests, as (name, value) pairs in insertion
\* order: no parameter, or 'page' and 'per_page' given in either order
ParamDicts ==
    { << >>,
      << << "page", 1 >>, << "per_page", 100 >> >>,
      << << "per_page", 100 >>, << "page", 1 >> >> }

\* A response body (a list of items; the empty list is a body too)
Payloads == { << >>, << 1 >> }

\* Order of the names as Python compares strings: 'page' < 'per_page'
NameRank(n) == IF n = "page" THEN 1 ELSE 2

\* (k1, v1) < (k2, v2) on tuples
item_before(a, b) ==
    \/ NameRank(a[1]) < NameRank(b[1])
    \/ NameRank(a[1]) = NameRank(b[1]) /\ a[2] < b[2]

RECURSIVE insert_item(_, _)
insert_item(x, s) ==
    IF s = << >> THEN << x >>
    ELSE IF item_before(x, Head(s)) THEN << x >> \o s
    ELSE << Head(s) >> \o insert_item(x, Tail(s))

\* sorted(params.items())
RECURSIVE sorted_items(_)
sorted_items(d) ==
    IF d = << >> THEN << >> ELSE insert_item(Head(d), sorted_items(Tail(d)))

\* str(v) of a parameter value
str(v) == IF v = 1 THEN "1" ELSE IF v = 2 THEN "2" ELSE "100"

\* "&".join(f"{k}={v}" for k, v in items), as the sequence of its pieces
RECURSIVE join_items(_)
join_items(items) ==
    IF items = << >> THEN << >>
    ELSE << Head(items)[1], "=", str(Head(items)[2]) >> \o
         (IF Tail(items) = << >> THEN << >> ELSE << "&" >> \o join_items(Tail(items)))

\* Code of a piece of the key string
piece_code(s) ==
    CASE s = "issues"   -> 1
      [] s = "?"        -> 2
      [] s = "="        -> 3
      [] s = "&"        -> 4
      [] s = "page"     -> 5
      [] s = "per_page" -> 6
      [] s = "1"        -> 7
      [] s = "2"        -> 8
      [] s = "100"      -> 9

\* hashlib.md5(key_data.encode()).hexdigest(): a digest of the whole string,
\* here of 16 bits
RECURSIVE md5_from(_, _)
md5_from(h, pieces) ==
    IF pieces = << >> THEN h
    ELSE md5_from((h * 11 + piece_code(Head(pieces))) % 65521, Tail(pieces))

md5(pieces) == md5_from(0, pieces)

\* _get_cache_key without the sort: the parameters in the order of the dict
get_cache_key_unsorted(url, params) ==
    md5(<< url, "?" >> \o join_items(params))

\* _get_cache_key: digest of f"{url}?{params_str}" with the parameters sorted
get_cache_key(url, params) ==
    md5(<< url, "?" >> \o join_items(sorted_items(params)))

\* The URL of the listing
ListingUrl == "issues"

\* pickle.dump(data, f): the bytes written (PROTO opcode, the object, STOP)
pickle_dump(data) == << 128 >> \o data \o << 46 >>

\* pickle.load(f): the object, or an exception for bytes that are no pickle
\* (an empty or truncated file)
pickle_load(text) ==
    IF Len(text) >= 2 /\ text[1] = 128 /\ text[Len(text)] = 46
    THEN [exc |-> FALSE, obj |-> SubSeq(text, 2, Len(text) - 1)]
    ELSE [exc |-> TRUE, obj |-> << >>]

\* The file of the key is (over)written at the present time; 'ok' and 'saved'
\* are history: the write was complete, and the payload it was given
write_file(fs, key, text, ok, data) ==
    [fs EXCEPT !.files =
        (key :> [text |-> text, mtime |-> now, ok |-> ok, saved |-> data]) @@ fs.files]

\* _get_cache_file: cache_subdir.mkdir(exist_ok=True) has no parents=True and
\* raises FileNotFoundError when the repository's cache directory is gone
get_cache_file_raises(fs) == ~fs.repo

\* _is_cache_valid with '<=': a file of exactly cache_expiry_days still counts
file_is_cache_valid_inclusive(fs, key) ==
    /\ key \in DOMAIN fs.files
    /\ (now - fs.files[key].mtime) <= cache_expiry_days

\* _is_cache_valid: the file exists and cache_age.days < cache_expiry_days
file_is_cache_valid(fs, key) ==
    /\ key \in DOMAIN fs.files
    /\ (now - fs.files[key].mtime) < cache_expiry_days

\* The try block of _save_to_cache (274-280). wfail is the I/O failure met:
\* "open" (the file cannot be opened), "dump" (the file was opened, which
\* truncates it, and the write failed) or "no"
save_try(fs, key, data, wfail) ==
    IF get_cache_file_raises(fs) \/ wfail = "open"
    THEN [exc |-> TRUE, fs |-> fs]
    ELSE IF wfail = "dump"
    THEN [exc |-> TRUE, fs |-> write_file(fs, key, << >>, FALSE, data)]
    ELSE [exc |-> FALSE, fs |-> write_file(fs, key, pickle_dump(data), TRUE, data)]

\* The try block of _load_from_cache (290-299). rfail: reading the file fails
load_try(fs, key, rfail) ==
    IF get_cache_file_raises(fs)
    THEN [exc |-> TRUE, none |-> TRUE, data |-> << >>]
    ELSE IF ~file_is_cache_valid(fs, key)
    THEN [exc |-> FALSE, none |-> TRUE, data |-> << >>]
    ELSE IF rfail
    THEN [exc |-> TRUE, none |-> TRUE, data |-> << >>]
    ELSE LET r == pickle_load(fs.files[key].text)
         IN  [exc |-> r.exc, none |-> r.exc, data |-> r.obj]

\* _save_to_cache without the except clause
file_save_to_cache_raising(fs, shown, key, data, wfail) ==
    LET r == save_try(fs, key, data, wfail)
    IN  [fs |-> r.fs, shown |-> shown, warn |-> FALSE, raised |-> r.exc]

\* _save_to_cache (272-286): a failure is caught; the warning is printed
\* unless the instance has printed one before
file_save_to_cache(fs, shown, key, data, wfail) ==
    LET r == save_try(fs, key, data, wfail)
    IN  [fs |-> r.fs, shown |-> shown \/ r.exc, warn |-> r.exc /\ ~shown,
         raised |-> FALSE]

\* _load_from_cache with a warning at every failure
file_load_from_cache_warns_always(fs, shown, key, rfail) ==
    LET r == load_try(fs, key, rfail)
    IN  [none |-> r.none, data |-> r.data, shown |-> shown \/ r.exc,
         warn |-> r.exc, raised |-> FALSE]

\* _load_from_cache (288-305): the payload of a valid file, None otherwise;
\* a failure is caught and gives None
file_load_from_cache(fs, shown, key, rfail) ==
    LET r == load_try(fs, key, rfail)
    IN  [none |-> r.none, data |-> r.data, shown |-> shown \/ r.exc,
         warn |-> r.exc /\ ~shown, raised |-> FALSE]

\* A client has been constructed
HasClient == cOut.client

Outcome(op) == [NoOutcome EXCEPT !.op = op, !.client = HasClient]

\* __init__, lines 225-229: cache_dir.mkdir(parents=True, exist_ok=True); a new
\* instance has none of the lazily created attributes
NewClient ==
    /\ fsys' = [fsys EXCEPT !.base = TRUE, !.repo = TRUE]
    /\ cache_error_shown' = FALSE
    /\ cache_load_error_shown' = FALSE
    /\ warned' = [load |-> 0, save |-> 0]
    /\ cOut' = [NoOutcome EXCEPT !.op = "new", !.client = TRUE]
    /\ UNCHANGED << asked, now, cache, interrupted, handler, original_signal_handler, srv,
                    reqVars, fetchVars, sig, pipeVars, stageStarts, sigLog, csLog,
                    issueVars, trendVars >>

\* _make_request, lines 392-398 and 441-447, for a request the upstream answers
\* 200 with 'body': the cache is consulted first, the body of a miss is saved.
\* A read can fail only where a file is read, a write only where one is made
CachedRequest(params, body, rfail, wfail) ==
    /\ HasClient
    /\ LET key == get_cache_key(ListingUrl, params)
           L   == file_load_from_cache(fsys, cache_load_error_shown, key, rfail)
           S   == file_save_to_cache(fsys, cache_error_shown, key, body, wfail)
           out == Outcome("request")
       IN  /\ rfail => (fsys.repo /\ file_is_cache_valid(fsys, key))
           /\ (wfail # "no") => (fsys.repo /\ ~L.raised /\ L.none)
           /\ cache_load_error_shown' = L.shown
           /\ IF L.raised
              THEN /\ cOut' = [out EXCEPT !.raised = TRUE]
                   /\ warned' = warned
                   /\ UNCHANGED << fsys, cache_error_shown >>
              ELSE IF ~L.none
              THEN /\ cOut' = [out EXCEPT !.hit = TRUE, !.ret = L.data]
                   /\ warned' = warned
                   /\ UNCHANGED << fsys, cache_error_shown >>
              ELSE /\ fsys' = S.fs
                   /\ cache_error_shown' = S.shown
                   /\ warned' = [load |-> warned.load + (IF L.warn THEN 1 ELSE 0),
                                 save |-> warned.save + (IF S.warn THEN 1 ELSE 0)]
                   /\ cOut' = [out EXCEPT !.net = TRUE, !.raised = S.raised,
                                          !.ret = IF S.raised THEN << >> ELSE body]
    /\ UNCHANGED << now, cache, interrupted, handler, original_signal_handler, srv,
                    reqVars, fetchVars, sig, pipeVars, stageStarts, sigLog, csLog,
                    issueVars, trendVars >>

\* os.utime on the file of a key: its age is set to d days
ForceAge(key, d) ==
    /\ key \in DOMAIN fsys.files
    /\ fsys.files[key].mtime # now - d
    /\ fsys' = [fsys EXCEPT !.files[key].mtime = now - d]
    /\ cOut' = Outcome("age")
    /\ UNCHANGED << now, cache, interrupted, handler, original_signal_handler, srv,
                    reqVars, fetchVars, sig, pipeVars, stageStarts, sigLog, csLog,
                    issueVars, trendVars, cache_error_shown, cache_load_error_shown, warned,
                    asked >>

\* shutil.rmtree(cache_dir) of the repository's directory
rm_repo(fs) == [fs EXCEPT !.repo = FALSE, !.files = << >>]

\* shutil.rmtree(Path(".cache"))
rm_base(fs) == [base |-> FALSE, repo |-> FALSE, files |-> << >>]

\* clear_cache_for_repo with neither the exists() test nor the try block:
\* rmtree of a missing directory raises FileNotFoundError
clear_cache_for_repo_bare(fs, cfail) ==
    IF fs.repo /\ ~cfail
    THEN [fs |-> rm_repo(fs), raised |-> FALSE]
    ELSE [fs |-> fs, raised |-> TRUE]

\* clear_cache_for_repo (320-332, static): the directory is removed when it
\* exists; a failure of rmtree (cfail) is caught and printed
clear_cache_for_repo(fs, cfail) ==
    IF fs.repo /\ ~cfail
    THEN [fs |-> rm_repo(fs), raised |-> FALSE]
    ELSE [fs |-> fs, raised |-> FALSE]

\* clear_all_caches (334-346, static)
clear_all_caches(fs, cfail) ==
    IF fs.base /\ ~cfail
    THEN [fs |-> rm_base(fs), raised |-> FALSE]
    ELSE [fs |-> fs, raised |-> FALSE]

Cleared(op, r) ==
    /\ fsys' = r.fs
    /\ cOut' = [Outcome(op) EXCEPT !.raised = r.raised]
    /\ UNCHANGED << now, cache, interrupted, handler, original_signal_handler, srv,
                    reqVars, fetchVars, sig, pipeVars, stageStarts, sigLog, csLog,
                    issueVars, trendVars, cache_error_shown, cache_load_error_shown, warned,
                    asked >>

\* A removal can fail only where something is removed
ClearRepo(cfail) ==
    /\ cfail => fsys.repo
    /\ Cleared("clear_repo", clear_cache_for_repo(fsys, cfail))

ClearAll(cfail) ==
    /\ cfail => fsys.base
    /\ Cleared("clear_all", clear_all_caches(fsys, cfail))

InitCache ==
    /\ now = 0
    /\ cache = << >>
    /\ interrupted = FALSE
    /\ handler = "default"
    /\ original_signal_handler = "none"
    /\ srv = [mode |-> "cache"]
    /\ InitRequest
    /\ InitNoPipeline
    /\ InitNoTrend
    /\ InitFetchVars
    /\ limit = 0

NextCache ==
    \/ NewClient
    \/ \E params \in ParamDicts, body \in Payloads, rfail \in BOOLEAN,
          wfail \in {"no", "open", "dump"} :
              CachedRequest(params, body, rfail, wfail) /\ UNCHANGED asked
    \/ \E params \in ParamDicts, d \in {cache_expiry_days - 1, cache_expiry_days} :
          ForceAge(get_cache_key(ListingUrl, params), d)
    \/ \E cfail \in BOOLEAN : ClearRepo(cfail)
    \/ \E cfail \in BOOLEAN : ClearAll(cfail)

CacheSpec == InitCache /\ [][NextCache]_vars

\* A request of a client whose disk does not fail, with the history of which
\* params dict asked and which one wrote the file of the key
KeyRequest(params, body) ==
    /\ CachedRequest(params, body, FALSE, "no")
    /\ asked' = [asked EXCEPT
                    !.last = params,
                    !.writer = IF cOut'.net
                               THEN (get_cache_key(ListingUrl, params) :> params) @@ @
                               ELSE @]

NextKey ==
    \/ NewClient
    \/ \E params \in ParamDicts, body \in Payloads : KeyRequest(params, body)
    \/ \E params \in ParamDicts, d \in {cache_expiry_days - 1, cache_expiry_days} :
          ForceAge(get_cache_key(ListingUrl, params), d)

KeySpec == InitCache /\ [][NextKey]_vars

\* The GraphQL queries of the client (organization projects, project items)
GraphqlQueries == {"projects", "items"}

\* What the GraphQL endpoint answers: a result with data, a result with an
\* 'errors' member, or an HTTP error status
GraphqlAnswers ==
    { [status |-> 200, errors |-> FALSE, data |-> d] : d \in Payloads } \cup
    { [status |-> 200, errors |-> TRUE, data |-> << >>],
      [status |-> 500, errors |-> FALSE, data |-> << >>] }

\* _make_graphql_request (850-864): the query is posted; raise_for_status and
\* an 'errors' member raise; the data of the result is returned
GraphqlRequest(query, answer) ==
    /\ HasClient
    /\ cOut' = [Outcome("graphql") EXCEPT
                   !.net = TRUE,
                   !.raised = answer.status >= 400 \/ answer.errors,
                   !.ret = answer.data]
    /\ asked' = [asked EXCEPT
                    !.answered = IF answer.status >= 400 \/ answer.errors
                                 THEN @ ELSE (query :> answer.data) @@ @]
    /\ UNCHANGED << now, cache, interrupted, handler, original_signal_handler, srv,
                    reqVars, fetchVars, sig, pipeVars, stageStarts, sigLog, csLog,
                    issueVars, trendVars, fsys, cache_error_shown,
                    cache_load_error_shown, warned >>

NextGraphql ==
    \/ NewClient
    \/ \E params \in ParamDicts, body \in Payloads : KeyRequest(params, body)
    \/ \E params \in ParamDicts, d \in {cache_expiry_days - 1, cache_expiry_days} :
          ForceAge(get_cache_key(ListingUrl, params), d)
    \/ \E query \in GraphqlQueries, answer \in GraphqlAnswers :
          GraphqlRequest(query, answer)

GraphqlSpec == InitCache /\ [][NextGraphql]_vars

\* The requests of the client for the listing, without a failing read
RequestStep(params) ==
    \E body \in Payloads, wfail \in {"no", "open", "dump"} :
        CachedRequest(params, body, FALSE, wfail)

\* The file of the key holds the complete write of a payload
SavedEntry(key) ==
    /\ fsys.repo
    /\ key \in DOMAIN fsys.files
    /\ fsys.files[key].ok

C23_Expired ==
    /\ cOut.op = "age"
    /\ \E key \in DOMAIN fsys.files :
          fsys.files[key].ok /\ now - fsys.files[key].mtime = cache_expiry_days

\* The (name, value) pairs of a params dict
Items(params) == { params[i] : i \in 1..Len(params) }

\* C24: two params dicts with the same (name, value) pairs have the same cache
\* key whatever the order of the pairs, so a request uses the very file that a
\* request with the same pairs wrote, and no two files belong to the same pairs
C24_OrderIndependent ==
    /\ \A p, q \in ParamDicts :
          Items(p) = Items(q) =>
              get_cache_key(ListingUrl, p) = get_cache_key(ListingUrl, q)
    /\ \A k \in DOMAIN asked.writer :
          (cOut.op = "request" /\ Items(asked.writer[k]) = Items(asked.last)) =>
              k = get_cache_key(ListingUrl, asked.last)
    /\ \A k1, k2 \in DOMAIN asked.writer :
          Items(asked.writer[k1]) = Items(asked.writer[k2]) => k1 = k2

\* A request was answered from the file that a request with the same
\* parameters in the other order had written
C24_Witness ==
    /\ cOut.op = "request" /\ cOut.hit
    /\ LET k == get_cache_key(ListingUrl, asked.last)
       IN  /\ k \in DOMAIN asked.writer
           /\ asked.writer[k] # asked.last
           /\ Items(asked.writer[k]) = Items(asked.last)

----------------------------------------------------------------------------
(* Monthly trend: _calculate_monthly_cycle_trends *)

MaxMonths == 6       \* closure months 1..MaxMonths of the corpus

min_issue_count == 3     \* monthly_avg['issue_count'] >= 3
min_months == 6          \* len(monthly_avg) < 6
rolling_window == 6      \* rolling(window=6, ...)
min_periods == 3         \* rolling(..., min_periods=3)

\* A cycle time of d days, and a null one
Days(d) == [null |-> FALSE, days |-> d]
NoDays == [null |-> TRUE, days |-> 0]

\* The closed issues of one month, by their cycle_time_days: none; three with
\* mean 5/3; four with mean 2; three of which one has no cycle time
MonthShapes ==
    { << >>,
      << Days(1), Days(2), Days(2) >>,
      << Days(1), Days(1), Days(1), Days(5) >>,
      << NoDays, Days(3), Days(3) >> }

\* The rows of the closed issues of months 1..n
RECURSIVE RowsOf(_, _)
RowsOf(shapes, n) ==
    IF n = 0 THEN << >>
    ELSE RowsOf(shapes, n - 1) \o
         [j \in 1..Len(shapes[n]) |-> [closed_month |-> n, cycle_time_days |-> shapes[n][j]]]

\* Exact fractions num/den in lowest terms
RECURSIVE Gcd(_, _)
Gcd(a, b) == IF b = 0 THEN a ELSE Gcd(b, a % b)

Frac(n, d) == LET g == Gcd(n, d) IN [num |-> n \div g, den |-> d \div g]

FracAdd(a, b) == Frac(a.num * b.den + b.num * a.den, a.den * b.den)

RECURSIVE SumDays(_)
SumDays(rows) ==
    IF rows = << >> THEN 0 ELSE Head(rows).cycle_time_days.days + SumDays(Tail(rows))

\* closed_issues[closed_issues['cycle_time_days'].notna()]
notna(rows) == SelectSeq(rows, LAMBDA r : ~r.cycle_time_days.null)

\* groupby('closed_month')['cycle_time_days'].agg(['mean', 'count']): one row
\* for each month that occurs, in the order of the months
RECURSIVE groupby_month(_, _)
groupby_month(rows, n) ==
    IF n = 0 THEN << >>
    ELSE LET g == SelectSeq(rows, LAMBDA r : r.closed_month = n)
         IN  groupby_month(rows, n - 1) \o
             (IF g = << >> THEN << >>
              ELSE << [month |-> n, monthly_avg |-> Frac(SumDays(g), Len(g)),
                       issue_count |-> Len(g)] >>)

RECURSIVE SumAvg(_, _, _)
SumAvg(rows, lo, hi) ==
    IF lo > hi THEN Frac(0, 1)
    ELSE FracAdd(rows[lo].monthly_avg, SumAvg(rows, lo + 1, hi))

\* rolling(window, min_periods).mean() at row i: the mean of the values of the
\* rows i-window+1..i, NaN while fewer than min_periods of them exist
rolling_mean(rows, i, window, periods) ==
    LET lo == IF i - window + 1 > 1 THEN i - window + 1 ELSE 1
        n  == i - lo + 1
        s  == SumAvg(rows, lo, i)
    IN  IF n >= periods
        THEN [nan |-> FALSE, value |-> Frac(s.num, s.den * n)]
        ELSE [nan |-> TRUE, value |-> Frac(0, 1)]

\* The trend with a rolling window one month shorter
calculate_monthly_cycle_trends_short(rows) ==
    LET cycle_data == notna(rows)
        kept == SelectSeq(groupby_month(cycle_data, MaxMonths),
                          LAMBDA g : g.issue_count >= min_issue_count)
    IN  IF cycle_data = << >> \/ Len(kept) < min_months THEN << >>
        ELSE [i \in 1..Len(kept) |->
                 [month |-> kept[i].month, monthly_avg |-> kept[i].monthly_avg,
                  issue_count |-> kept[i].issue_count,
                  rolling_6m |-> rolling_mean(kept, i, rolling_window - 1, min_periods)]]

\* _calculate_monthly_cycle_trends (1405-1431)
calculate_monthly_cycle_trends(rows) ==
    LET cycle_data == notna(rows)
        kept == SelectSeq(groupby_month(cycle_data, MaxMonths),
                          LAMBDA g : g.issue_count >= min_issue_count)
    IN  IF cycle_data = << >> \/ Len(kept) < min_months THEN << >>
        ELSE [i \in 1..Len(kept) |->
                 [month |-> kept[i].month, monthly_avg |-> kept[i].monthly_avg,
                  issue_count |-> kept[i].issue_count,
                  rolling_6m |-> rolling_mean(kept, i, rolling_window, min_periods)]]

\* The call of _calculate_monthly_cycle_trends(closed_issues)
MonthlyTrends ==
    /\ tPc = "call"
    /\ monthly_avg' = calculate_monthly_cycle_trends(closed_issues)
    /\ tPc' = "returned"
    /\ UNCHANGED << now, cache, interrupted, handler, original_signal_handler, srv,
                    reqVars, fetchVars, sig, pipeVars, stageStarts, sigLog, csLog,
                    issueVars, storeVars, closed_issues, labels, verdict, totals,
                    projectVars, enrichVars, docVars >>

InitTrend ==
    /\ now = 0
    /\ cache = << >>
    /\ interrupted = FALSE
    /\ handler = "default"
    /\ original_signal_handler = "none"
    /\ srv = [mode |-> "none"]
    /\ InitRequest
    /\ InitFetchVars
    /\ InitNoPipeline
    /\ limit = 0
    /\ tPc = "call"
    /\ \E shapes \in [1..MaxMonths -> MonthShapes] :
          closed_issues = RowsOf(shapes, MaxMonths)
    /\ monthly_avg = << >>
    /\ labels = << >>
    /\ verdict = [cycle_time |-> "none", sync_issues |-> "none",
                  utils_filtering |-> "none"]
    /\ totals = NoTotals
    /\ mKeys = {}
    /\ synced_keys = {}
    /\ InitNoProject
    /\ InitNoEnrich

NextTrend == MonthlyTrends

TrendSpec == InitTrend /\ [][NextTrend]_vars

\* The closure months with at least 3 closed issues that have a cycle time
IssuesOfMonth(n) ==
    SelectSeq(closed_issues,
              LAMBDA r : r.closed_month = n /\ ~r.cycle_time_days.null)

QualifyingMonths == { n \in 1..MaxMonths : Len(IssuesOfMonth(n)) >= 3 }

MonthMean(n) == Frac(SumDays(IssuesOfMonth(n)), Len(IssuesOfMonth(n)))

RECURSIVE SumMeans(_)
SumMeans(S) ==
    IF S = {} THEN Frac(0, 1)
    ELSE LET n == CHOOSE x \in S : TRUE
         IN  FracAdd(MonthMean(n), SumMeans(S \ {n}))

\* The unweighted mean of the monthly means of the qualifying months
MeanOfMeans ==
    LET s == SumMeans(QualifyingMonths)
    IN  Frac(s.num, s.den * Cardinality(QualifyingMonths))

C25_Empty ==
    /\ tPc = "returned"
    /\ Cardinality(QualifyingMonths) = 5
    /\ Len(closed_issues) >= 18
    /\ monthly_avg = << >>

\* A GraphQL request for the query, whatever the answer
GraphqlStep(query) == \E answer \in GraphqlAnswers : GraphqlRequest(query, answer)

\* C26 as stated: a GraphQL request identical to one that was answered
\* successfully (all entries here are younger than the TTL) is served without
\* a network call with the data of that answer, and a successful GraphQL
\* response is saved to the cache
C26_Original ==
    [][\A query \in GraphqlQueries :
          GraphqlStep(query) =>
              /\ query \in DOMAIN asked.answered =>
                    ~cOut'.net /\ cOut'.ret = asked.answered[query]
              /\ (~cOut'.raised) => fsys'.files # fsys.files]_vars

\* What the transport does: every GraphQL request is posted to the network,
\* and it neither reads nor writes the cache
C26_AlwaysPosted ==
    [][\A query \in GraphqlQueries :
          GraphqlStep(query) => cOut'.net /\ fsys' = fsys]_vars

\* The same query was answered successfully twice in a row, by the network
C26_Repeated ==
    /\ cOut.op = "graphql" /\ cOut.net /\ ~cOut.raised
    /\ DOMAIN asked.answered = GraphqlQueries
    /\ fsys.repo /\ fsys.files = << >>

\* Every load of the listing's keys returns absent on the disk fs, for the
\* client at hand as for a client built afterwards
LoadsAbsent(fs) ==
    \A params \in ParamDicts, rfail \in BOOLEAN, shown \in BOOLEAN :
        LET key == get_cache_key(ListingUrl, params)
            dir == [fs EXCEPT !.base = TRUE, !.repo = TRUE]
        IN  /\ file_load_from_cache(fs, shown, key, rfail).none
            /\ file_load_from_cache(dir, shown, key, rfail).none

C27_NoCache ==
    /\ cOut.op = "clear_all" /\ ~cOut.client /\ ~cOut.raised /\ ~fsys.base

\* The load of the key fails: the directory of the cache is gone, the read of
\* a valid file fails, or a valid file holds no complete pickle
LoadFails(key, rfail) ==
    \/ ~fsys.repo
    \/ /\ file_is_cache_valid(fsys, key)
       /\ rfail \/ ~fsys.files[key].ok

\* The save of the key fails: the directory is gone or the write fails
SaveFails(wfail) == ~fsys.repo \/ wfail # "no"

\* C28: a failing read or write of the cache never makes a request fail: a
\* request whose load fails gets the body from the network, a request whose
\* save fails returns the body all the same and writes no complete entry (the
\* file is left as it was or truncated), and a client prints at most one load
\* warning and at most one save warning
C28_CacheFailuresNonFatal ==
    /\ [][\A params \in ParamDicts, body \in Payloads, rfail \in BOOLEAN,
             wfail \in {"no", "open", "dump"} :
             LET key == get_cache_key(ListingUrl, params)
             IN  CachedRequest(params, body, rfail, wfail) =>
                     /\ ~cOut'.raised
                     /\ LoadFails(key, rfail) =>
                           cOut'.net /\ ~cOut'.hit /\ cOut'.ret = body
                     /\ (cOut'.net /\ SaveFails(wfail)) =>
                           /\ cOut'.ret = body
                           /\ key \in DOMAIN fsys'.files =>
                                 \/ ~fsys'.files[key].ok
                                 \/ /\ key \in DOMAIN fsys.files
                                    /\ fsys'.files[key] = fsys.files[key]]_vars
    /\ [](warned.load <= 1 /\ warned.save <= 1)

\* After several failures: a request got its body from the network although
\* its save failed, a truncated file is on disk, and the client has printed one
\* warning of each kind
C28_Witness ==
    /\ cOut.op = "request" /\ cOut.net /\ ~cOut.raised /\ cOut.ret = << 1 >>
    /\ cache_error_shown /\ cache_load_error_shown
    /\ warned = [load |-> 1, save |-> 1]
    /\ \E key \in DOMAIN fsys.files : ~fsys.files[key].ok

----------------------------------------------------------------------------
(* The rate-limit wait of test_make_request_rate_limit *)

WaitAhead == 200     \* seconds from time.time() to X-RateLimit-Reset

sleep_seconds == 1   \* time.sleep(1)

\* _make_request("https://api.github.com/test") has received the rate-limited
\* 403 whose reset is WaitAhead seconds ahead (lines 401-408): the wait loop of
\* int(sleep_time) = WaitAhead + 1 iterations is about to start
InitWait ==
    /\ now = 0
    /\ cache = << >>
    /\ interrupted = FALSE
    /\ handler = "flag"
    /\ original_signal_handler = "default"
    /\ srv = [mode |-> "any", total |-> 0, pulls |-> "none",
              strategic |-> "none", detail |-> "ok"]
    /\ mrPc = "tick"
    /\ mrKey = 1
    /\ mrTick = 0
    /\ mrTicks = WaitAhead + 1
    /\ mrRet = NoResult
    /\ netLog = << [key |-> 1, status |-> 403, rate_limit |-> TRUE] >>
    /\ lastOk = << >>
    /\ startHit = NoEntry
    /\ waitSig = "none"
    /\ InitFetchVars
    /\ InitNoPipeline
    /\ InitNoTrend
    /\ limit = 0

NextWait ==
    \/ MR_Tick
    \/ MR_Retry
    \/ SignalFlag
    \/ ClientReturn

WaitSpec == InitWait /\ [][NextWait]_vars

----------------------------------------------------------------------------
(* The strategic-work filters; strings are sequences of characters *)

\* include_patterns of is_strategic_work in cycle_time.py (143-149) and
\* sync_issues.py (108-114)
include_patterns ==
    << << "p", "r", "o", "d", "u", "c", "t", "/" >>,
       << "e", "p", "i", "c" >>,
       << "a", "r", "e", "a", "/", "c", "u", "s", "t", "o", "m", "e", "r" >>,
       << "t", "y", "p", "e", "/", "f", "e", "a", "t", "u", "r", "e" >>,
       << "t", "y", "p", "e", "/", "b", "u", "g" >> >>

\* exclude_patterns of is_strategic_work in cycle_time.py (152-160) and
\* sync_issues.py (117-125)
exclude_patterns ==
    << << "t", "y", "p", "e", "/", "c", "h", "o", "r", "e" >>,
       << "d", "e", "v", "/", "i", "a", "c" >>,
       << "d", "e", "p", "l", "o", "y", "/" >>,
       << "c", "o", "m", "p", "l", "i", "a", "n", "c", "e" >>,
       << "t", "e", "c", "h", "-", "b", "a", "c", "k", "l", "o", "g" >>,
       << "s", "t", "a", "t", "u", "s", "/" >>,
       << "a", "r", "e", "a", "/", "i", "n", "t", "e", "r", "n", "a", "l" >> >>

\* config.py, lines 15-21
STRATEGIC_INCLUDE_PATTERNS ==
    << << "p", "r", "o", "d", "u", "c", "t", "/" >>,
       << "e", "p", "i", "c" >>,
       << "a", "r", "e", "a", "/", "c", "u", "s", "t", "o", "m", "e", "r" >>,
       << "t", "y", "p", "e", "/", "f", "e", "a", "t", "u", "r", "e" >>,
       << "t", "y", "p", "e", "/", "b", "u", "g" >> >>

\* config.py, lines 24-35
STRATEGIC_EXCLUDE_PATTERNS ==
    << << "t", "y", "p", "e", "/", "c", "h", "o", "r", "e" >>,
       << "d", "e", "v", "/", "i", "a", "c" >>,
       << "d", "e", "p", "l", "o", "y", "/" >>,
       << "c", "o", "m", "p", "l", "i", "a", "n", "c", "e" >>,
       << "t", "e", "c", "h", "-", "b", "a", "c", "k", "l", "o", "g" >>,
       << "i", "n", "t", "e", "r", "n", "a", "l" >>,
       << "t", "e", "s", "t", "i", "n", "g", "/" >>,
       << "c", "i", "/", "c", "d" >>,
       << "m", "o", "n", "i", "t", "o", "r", "i", "n", "g" >>,
       << "s", "e", "c", "u", "r", "i", "t", "y", "/" >> >>

\* A label as the REST API gives it: a dict with 'name' and 'description'
\* among its members
Label(name, description) == [name |-> name, description |-> description]

\* The labels the issues of the runs carry
LabelValues ==
    { Label(<< "p", "r", "o", "d", "u", "c", "t", "/", "a", "i" >>, << >>),
      Label(<< "t", "y", "p", "e", "/", "b", "u", "g" >>, << >>),
      Label(<< "t", "y", "p", "e", "/", "c", "h", "o", "r", "e" >>, << >>),
      Label(<< "s", "t", "a", "t", "u", "s", "/", "b", "l", "o", "c", "k", "e", "d" >>, << >>),
      Label(<< "m", "o", "n", "i", "t", "o", "r", "i", "n", "g" >>, << >>),
      Label(<< "d", "o", "c", "s" >>, << >>),
      Label(<< "d", "o", "c", "s" >>, << "e", "p", "i", "c", " ", "d", "o", "c", "s" >>),
      Label(<< "E", "p", "i", "c" >>, << >>) }

\* issue['labels']: no label, one label or two different ones
LabelLists ==
    { << >> } \cup { << a >> : a \in LabelValues } \cup
    { p \in { << a, b >> : a \in LabelValues, b \in LabelValues } : p[1] # p[2] }

\* str.lower() of a character
lower_char(c) == IF c = "E" THEN "e" ELSE IF c = "D" THEN "d" ELSE c

\* s.lower()
str_lower(s) == [i \in 1..Len(s) |-> lower_char(s[i])]

\* pattern in s
contains(s, pattern) ==
    \E i \in 1..(Len(s) - Len(pattern) + 1) :
        SubSeq(s, i, i + Len(pattern) - 1) = pattern

\* str(label) of a label dict: "{'name': '...', 'description': '...'}"
str_label(l) ==
    << "{", "'", "n", "a", "m", "e", "'", ":", " ", "'" >> \o l.name \o
    << "'", ",", " ", "'", "d", "e", "s", "c", "r", "i", "p", "t", "i", "o", "n", "'",
       ":", " ", "'" >> \o l.description \o << "'", "}" >>

\* str(labels) of the list: "[" + ", ".join(...) + "]"
RECURSIVE str_join(_)
str_join(ls) ==
    IF ls = << >> THEN << >>
    ELSE str_label(Head(ls)) \o
         (IF Tail(ls) = << >> THEN << >> ELSE << ",", " " >> \o str_join(Tail(ls)))

str_list(ls) == << "[" >> \o str_join(ls) \o << "]" >>

\* ' '.join([label['name'].lower() for label in raw_labels])
RECURSIVE join_names(_)
join_names(ls) ==
    IF ls = << >> THEN << >>
    ELSE str_lower(Head(ls).name) \o
         (IF Tail(ls) = << >> THEN << >> ELSE << " " >> \o join_names(Tail(ls)))

\* normalize_labels (utils_filtering.py 19-37) for a list of label dicts
normalize_labels(raw_labels) ==
    IF raw_labels = << >> THEN << >> ELSE join_names(raw_labels)

\* The two loops of the filters: an exclusion pattern found gives False, else
\* an inclusion pattern found gives True, else False
filter_by_patterns(labels_str, exclude, include) ==
    IF \E i \in 1..Len(exclude) : contains(labels_str, exclude[i]) THEN "False"
    ELSE IF \E i \in 1..Len(include) : contains(labels_str, include[i]) THEN "True"
    ELSE "False"

\* is_strategic_work of cycle_time.py (133-173)
is_strategic_work_cycle_time(ls) ==
    filter_by_patterns(str_lower(str_list(ls)), exclude_patterns, include_patterns)

\* is_strategic_work of sync_issues.py (98-138): the same text
is_strategic_work_sync_issues(ls) ==
    filter_by_patterns(str_lower(str_list(ls)), exclude_patterns, include_patterns)

\* is_strategic_work of utils_filtering.py (40-61)
is_strategic_work_utils_filtering(ls) ==
    filter_by_patterns(normalize_labels(ls), STRATEGIC_EXCLUDE_PATTERNS,
                       STRATEGIC_INCLUDE_PATTERNS)

FilterFrame ==
    UNCHANGED << now, cache, interrupted, handler, original_signal_handler, srv,
                 reqVars, fetchVars, sig, pipeVars, stageStarts, sigLog, csLog,
                 issueVars, storeVars, tPc, closed_issues, monthly_avg, labels,
                 totals, projectVars, enrichVars, docVars >>

\* The analyzer filters the issue (cycle_time.py 3175)
FilterCycleTime ==
    /\ verdict.cycle_time = "none"
    /\ verdict' = [verdict EXCEPT !.cycle_time = is_strategic_work_cycle_time(labels)]
    /\ FilterFrame

\* The syncer filters the issue (sync_issues.py 1069)
FilterSyncIssues ==
    /\ verdict.sync_issues = "none"
    /\ verdict' = [verdict EXCEPT !.sync_issues = is_strategic_work_sync_issues(labels)]
    /\ FilterFrame

\* The status report filters the issue (product_status_report.py 733)
FilterUtilsFiltering ==
    /\ verdict.utils_filtering = "none"
    /\ verdict' = [verdict EXCEPT
                      !.utils_filtering = is_strategic_work_utils_filtering(labels)]
    /\ FilterFrame

InitFilter ==
    /\ now = 0
    /\ cache = << >>
    /\ interrupted = FALSE
    /\ handler = "default"
    /\ original_signal_handler = "none"
    /\ srv = [mode |-> "none"]
    /\ InitRequest
    /\ InitFetchVars
    /\ InitNoPipeline
    /\ limit = 0
    /\ tPc = "none"
    /\ closed_issues = << >>
    /\ monthly_avg = << >>
    /\ labels \in LabelLists
    /\ verdict = [cycle_time |-> "none", sync_issues |-> "none",
                  utils_filtering |-> "none"]
    /\ totals = NoTotals
    /\ mKeys = {}
    /\ synced_keys = {}
    /\ InitNoProject
    /\ InitNoEnrich

NextFilter == FilterCycleTime \/ FilterSyncIssues \/ FilterUtilsFiltering

FilterSpec == InitFilter /\ [][NextFilter]_vars

Filtered ==
    /\ verdict.cycle_time # "none"
    /\ verdict.sync_issues # "none"
    /\ verdict.utils_filtering # "none"

\* C30: the three is_strategic_work functions return the same verdict for
\* every issue, exclusion going before inclusion and an issue without labels
\* being excluded
C30_Original ==
    Filtered =>
        /\ verdict.cycle_time = verdict.sync_issues
        /\ verdict.cycle_time = verdict.utils_filtering
        /\ labels = << >> => verdict.cycle_time = "False"

\* What the three have in common: the analyzer and the syncer agree, an issue
\* without labels is excluded by all three, and so is one with the label
\* type/chore whatever else it carries
C30_SharedPart ==
    Filtered =>
        /\ verdict.cycle_time = verdict.sync_issues
        /\ labels = << >> =>
              verdict.cycle_time = "False" /\ verdict.utils_filtering = "False"
        /\ (\E i \in 1..Len(labels) :
                labels[i].name = << "t", "y", "p", "e", "/", "c", "h", "o", "r", "e" >>) =>
              verdict.cycle_time = "False" /\ verdict.utils_filtering = "False"

\* An issue labelled product/ai and status/blocked: dropped by the analyzer,
\* kept by the status report
C30_Diverge ==
    /\ Filtered
    /\ verdict.cycle_time = "False" /\ verdict.utils_filtering = "True"

----------------------------------------------------------------------------
(* The age limit of an entry *)

\* C31: an entry is returned exactly when it exists and its age, taken from
\* the mtime of the file, does not exceed cache_expiry_days: an entry aged
\* exactly cache_expiry_days is still a hit, an older one is absent
C31_Original ==
    [][\A params \in ParamDicts :
          LET key == get_cache_key(ListingUrl, params)
          IN  (RequestStep(params) /\ SavedEntry(key)) =>
                  IF now - fsys.files[key].mtime <= cache_expiry_days
                  THEN cOut'.hit /\ cOut'.ret = fsys.files[key].saved
                  ELSE ~cOut'.hit]_vars

\* What _is_cache_valid does on the day of expiry: the request for a complete
\* entry aged exactly cache_expiry_days is not answered from it
C31_ExpiryDayAbsent ==
    [][\A params \in ParamDicts :
          LET key == get_cache_key(ListingUrl, params)
          IN  (/\ RequestStep(params)
               /\ SavedEntry(key)
               /\ now - fsys.files[key].mtime = cache_expiry_days) =>
                  ~cOut'.hit /\ cOut'.net]_vars

----------------------------------------------------------------------------
(* The segments of a closed issue against its milestones *)

\* The milestones of the issue in chronological order, as lines 1235-1255
\* build them
SortedMilestones ==
    sort_by_time(milestones_of(issue,
                               extract_assignment_date(events.list),
                               extract_first_commit_date(commits),
                               extract_first_pr_date(prs)))

\* C32: for a closed issue the segmenter emits exactly one segment per
\* consecutive pair of the chronologically sorted milestones, typed and named
\* by the table of _determine_stage_type
C32_Original ==
    (iPc = "segmented" /\ DataParses) =>
        /\ Len(stage_segments) = Len(SortedMilestones) - 1
        /\ \A i \in 1..Len(stage_segments) :
              LET cur == SortedMilestones[i]
                  nxt == SortedMilestones[i + 1]
                  typ == determine_stage_type(cur[1], nxt[1])
              IN  /\ stage_segments[i].stage_type = typ[1]
                  /\ stage_segments[i].stage_name = typ[2]
                  /\ stage_segments[i].start_time = cur[2]
                  /\ stage_segments[i].end_time = nxt[2]

\* A closed issue with an assignment between creation and closure has three
\* milestones and no segment
C32_ThreeMilestones ==
    /\ iPc = "segmented" /\ DataParses
    /\ Len(SortedMilestones) = 3
    /\ SortedMilestones[2][1] = "assigned"
    /\ stage_segments = << >>

----------------------------------------------------------------------------
(* The totals over the segments of a closed issue *)

\* A closed issue has the milestone 'closed' besides 'created'
HasFurtherMilestone == Len(SortedMilestones) >= 2

\* C33: for a closed issue with a milestone besides creation,
\* total_work_time_days and total_wait_time_days are the sums of the segment
\* durations by type, and work_efficiency_ratio is work / (work + wait), lies
\* in [0, 1] and is undefined exactly when work + wait is zero
C33_Original ==
    (iPc = "segmented" /\ DataParses /\ HasFurtherMilestone) =>
        LET work == sum_by_type(stage_segments, "work")
            wait == sum_by_type(stage_segments, "wait")
            ratio == totals.work_efficiency_ratio
        IN  /\ ~totals.total_work_time.null /\ totals.total_work_time.days = work
            /\ ~totals.total_wait_time.null /\ totals.total_wait_time.days = wait
            /\ ratio.null <=> (work + wait = 0)
            /\ ~ratio.null =>
                  /\ ratio.num * (work + wait) = work * ratio.den
                  /\ 0 <= ratio.num /\ ratio.num <= ratio.den

\* What the run gives: the three values stay None for every closed issue
C33_NoTotals == iPc = "segmented" => totals = NoTotals

\* A closed issue that took a day from creation to closure has no totals
C33_DayLong ==
    /\ iPc = "segmented" /\ DataParses
    /\ issue.closed_at - issue.created_at = 1
    /\ totals.total_wait_time.null

----------------------------------------------------------------------------
(* fetch_project_items (cycle_time.py 922-1028): the cursor loop over the
   items of a project *)

MaxItemPages == 3    \* the project has at most this many pages of items

\* The endCursor the server gives with page p
CursorOf(p) ==
    CASE p = 1 -> "Y3Vyc29yOjE"
      [] p = 2 -> "Y3Vyc29yOjI"
      [] p = 3 -> "Y3Vyc29yOjM"
      [] p = 4 -> "Y3Vyc29yOjQ"
      [] OTHER -> "Y3Vyc29yOjU"

\* The item ids a page p can carry: none, one or two
NodesOf(p) == { << >>, << 2 * p - 1 >>, << 2 * p - 1, 2 * p >> }

\* What _make_graphql_request gives for page p: data with pageInfo and nodes,
\* or an exception (HTTP error, 'errors' member)
ItemAnswers(p) ==
    { [raised |-> FALSE, hasNextPage |-> h, endCursor |-> c, nodes |-> n] :
          h \in BOOLEAN, c \in {"None", "", CursorOf(p)}, n \in NodesOf(p) }
    \cup { [raised |-> TRUE, hasNextPage |-> FALSE, endCursor |-> "None",
            nodes |-> << >>] }

\* 'if cursor': None and the empty string are false
truthy(c) == c # "None" /\ c # ""

\* cursor_arg (line 930): the 'after' argument of the query, "None" without one
cursor_arg(c) == IF truthy(c) THEN c ELSE "None"

\* The answer makes the loop go on
Continues(answer) ==
    ~answer.raised /\ answer.hasNextPage /\ truthy(answer.endCursor)

\* Variant of lines 1021-1023 without the check of the cursor
fetch_project_items_page_unchecked(st, answer) ==
    IF answer.raised
    THEN [st EXCEPT !.pc = "returned"]
    ELSE IF ~answer.hasNextPage
         THEN [st EXCEPT !.pc = "returned",
                         !.all_items = st.all_items \o answer.nodes]
         ELSE [st EXCEPT !.all_items = st.all_items \o answer.nodes,
                         !.cursor = answer.endCursor]

\* Lines 1008-1026, one pass of the loop body after the request: the nodes
\* are appended, the loop is left without a next page, without a cursor or on
\* any exception
fetch_project_items_page(st, answer) ==
    IF answer.raised
    THEN [st EXCEPT !.pc = "returned"]
    ELSE IF ~answer.hasNextPage
         THEN [st EXCEPT !.pc = "returned",
                         !.all_items = st.all_items \o answer.nodes]
         ELSE IF ~truthy(answer.endCursor)
              THEN [st EXCEPT !.pc = "returned",
                              !.all_items = st.all_items \o answer.nodes,
                              !.cursor = answer.endCursor]
              ELSE [st EXCEPT !.all_items = st.all_items \o answer.nodes,
                              !.cursor = answer.endCursor]

ItemsFrame ==
    UNCHANGED << now, cache, interrupted, handler, original_signal_handler, srv,
                 reqVars, fetchVars, sig, pipeVars, stageStarts, sigLog, csLog,
                 issueVars, storeVars, tPc, closed_issues, monthly_avg, labels,
                 verdict, totals, enrichVars, docVars >>

\* Lines 924-926: fetch_project_items is called
FetchItemsStart ==
    /\ piPc = "none"
    /\ piPc' = "loop"
    /\ all_items' = << >>
    /\ cursor' = "None"
    /\ item_page' = 0
    /\ itemLog' = << >>
    /\ ItemsFrame

\* Lines 928-1026: one pass of 'while True', the request included. The project
\* ends with page MaxItemPages
FetchItemsPage(answer) ==
    /\ piPc = "loop"
    /\ item_page < MaxItemPages
    /\ (item_page + 1 = MaxItemPages) => ~(~answer.raised /\ answer.hasNextPage)
    /\ LET st == fetch_project_items_page(
                     [pc |-> "loop", all_items |-> all_items, cursor |-> cursor],
                     answer)
       IN  /\ piPc' = st.pc
           /\ all_items' = st.all_items
           /\ cursor' = st.cursor
    /\ item_page' = item_page + 1
    /\ itemLog' = Append(itemLog, [after |-> cursor_arg(cursor), answer |-> answer])
    /\ ItemsFrame

InitItems ==
    /\ now = 0
    /\ cache = << >>
    /\ interrupted = FALSE
    /\ handler = "default"
    /\ original_signal_handler = "none"
    /\ srv = [mode |-> "none"]
    /\ InitRequest
    /\ InitFetchVars
    /\ InitNoPipeline
    /\ limit = 0
    /\ tPc = "none"
    /\ closed_issues = << >>
    /\ monthly_avg = << >>
    /\ labels = << >>
    /\ verdict = [cycle_time |-> "none", sync_issues |-> "none",
                  utils_filtering |-> "none"]
    /\ totals = NoTotals
    /\ mKeys = {}
    /\ synced_keys = {}
    /\ piPc = "none"
    /\ all_items = << >>
    /\ cursor = "None"
    /\ item_page = 0
    /\ itemLog = << >>
    /\ InitNoEnrich

NextItems ==
    \/ FetchItemsStart
    \/ \E answer \in ItemAnswers(item_page + 1) : FetchItemsPage(answer)

ItemsSpec == InitItems /\ [][NextItems]_vars

\* The nodes of the answers in the log that carried data, in order
RECURSIVE NodesOfLog(_)
NodesOfLog(log) ==
    IF log = << >> THEN << >>
    ELSE (IF Head(log).answer.raised THEN << >> ELSE Head(log).answer.nodes)
         \o NodesOfLog(Tail(log))

\* C34: a further page is requested exactly when the last answer reported a
\* next page and carried a non-empty end cursor, and that cursor is passed;
\* the items returned are the nodes of all pages fetched, in order; a failing
\* request for page k ends the loop with the items of pages 1..k-1
C34_CursorLoop ==
    /\ Len(itemLog) = item_page
    /\ Len(itemLog) > 0 => itemLog[1].after = "None"
    /\ \A i \in 1..(Len(itemLog) - 1) :
          /\ Continues(itemLog[i].answer)
          /\ itemLog[i + 1].after = itemLog[i].answer.endCursor
    /\ (piPc = "loop" /\ Len(itemLog) > 0) => Continues(itemLog[Len(itemLog)].answer)
    /\ piPc = "returned" =>
          /\ Len(itemLog) > 0
          /\ ~Continues(itemLog[Len(itemLog)].answer)
          /\ all_items = NodesOfLog(itemLog)
          /\ itemLog[Len(itemLog)].answer.raised =>
                all_items = NodesOfLog(SubSeq(itemLog, 1, Len(itemLog) - 1))

\* The request for the third page failed and the items of the first two
\* pages were returned
C34_Witness ==
    /\ piPc = "returned"
    /\ Len(itemLog) = 3
    /\ itemLog[3].answer.raised
    /\ itemLog[3].after = CursorOf(2)
    /\ all_items = << 1, 2, 3, 4 >>

\* A page reported a next page with an empty cursor and the loop ended there
C34_EmptyCursor ==
    /\ piPc = "returned"
    /\ Len(itemLog) = 2
    /\ itemLog[2].answer.hasNextPage /\ itemLog[2].answer.endCursor = ""
    /\ Len(all_items) = 4

----------------------------------------------------------------------------
(* enrich_issues_with_project_data (cycle_time.py 1030-1094, sync_issues.py
   975-1050) on issue dicts held by object identity *)

MaxNumber == 3       \* issue numbers 1..MaxNumber

\* The issue dict the fetch produced for a number: no key 'project_data'
IssueDict(n) == [number |-> n, has_project_data |-> FALSE, project_data |-> << >>]

\* The lists of issues handed in: up to two issues of different numbers
IssueLists ==
    { << >> } \cup { << n >> : n \in 1..MaxNumber } \cup
    { p \in { << a, b >> : a \in 1..MaxNumber, b \in 1..MaxNumber } : p[1] # p[2] }

\* org_projects + repo_projects: no project, or one project, open or closed,
\* whose items are the issues of 'numbers'
ProjectLists ==
    { << >> } \cup
    { << [id |-> "PVT_1", closed |-> c, numbers |-> ns] >> :
          c \in BOOLEAN, ns \in SUBSET (1..MaxNumber) }

\* Lines 1046-1078: issue_project_map[n], the entries of the open projects
\* that hold issue n
RECURSIVE issue_project_map(_, _)
issue_project_map(all_projects, n) ==
    IF all_projects = << >> THEN << >>
    ELSE (IF ~Head(all_projects).closed /\ n \in Head(all_projects).numbers
          THEN << [project_id |-> Head(all_projects).id] >> ELSE << >>)
         \o issue_project_map(Tail(all_projects), n)

\* issue['project_data'] = value, on the dict itself
set_project_data(d, value) ==
    [d EXCEPT !.has_project_data = TRUE, !.project_data = value]

\* Lines 982-983 and 995-996 of sync_issues.py: every dict of the list given
\* gets an empty project_data, in place
set_empty_in_place(h, ids) ==
    [o \in DOMAIN h |->
        IF \E i \in DOMAIN ids : ids[i] = o THEN set_project_data(h[o], << >>)
        ELSE h[o]]

\* Lines 1081-1091: every issue is copied (issue.copy()), the copy gets its
\* project_data and goes to the new list; the copies are new objects
copy_and_enrich(h, ids, all_projects) ==
    [heap |-> h \o [i \in 1..Len(ids) |->
                       set_project_data(h[ids[i]],
                                        issue_project_map(all_projects,
                                                          h[ids[i]].number))],
     list |-> [i \in 1..Len(ids) |-> Len(h) + i]]

\* sync_issues.py 975-1050
enrich_syncer(h, ids, scope, all_projects) ==
    IF ~scope
    THEN [pc |-> "no_scope", heap |-> set_empty_in_place(h, ids), list |-> ids]
    ELSE IF all_projects = << >>
         THEN [pc |-> "no_projects", heap |-> set_empty_in_place(h, ids),
               list |-> ids]
         ELSE [pc |-> "enriched"] @@ copy_and_enrich(h, ids, all_projects)

\* cycle_time.py 1030-1094: without projects the list given is returned as
\* it is
enrich_analyzer(h, ids, all_projects) ==
    IF all_projects = << >>
    THEN [pc |-> "no_projects", heap |-> h, list |-> ids]
    ELSE [pc |-> "enriched"] @@ copy_and_enrich(h, ids, all_projects)

\* The call of enrich_issues_with_project_data (cycle_time.py 3171,
\* sync_issues.py 1064); the analyzer's method does not look at the scopes
EnrichIssues(scope, all_projects) ==
    /\ enPc = "call"
    /\ enWho = "analyzer" => scope
    /\ LET r == IF enWho = "syncer"
                THEN enrich_syncer(heap, given, scope, all_projects)
                ELSE enrich_analyzer(heap, given, all_projects)
       IN  /\ enPc' = r.pc
           /\ heap' = r.heap
           /\ returned' = r.list
    /\ UNCHANGED << enWho, heap0, given >>
    /\ UNCHANGED << now, cache, interrupted, handler, original_signal_handler, srv,
                    reqVars, fetchVars, sig, pipeVars, stageStarts, sigLog, csLog,
                    issueVars, storeVars, tPc, closed_issues, monthly_avg, labels,
                    verdict, totals, projectVars, docVars >>

InitEnrich ==
    /\ now = 0
    /\ cache = << >>
    /\ interrupted = FALSE
    /\ handler = "default"
    /\ original_signal_handler = "none"
    /\ srv = [mode |-> "none"]
    /\ InitRequest
    /\ InitFetchVars
    /\ InitNoPipeline
    /\ limit = 0
    /\ tPc = "none"
    /\ closed_issues = << >>
    /\ monthly_avg = << >>
    /\ labels = << >>
    /\ verdict = [cycle_time |-> "none", sync_issues |-> "none",
                  utils_filtering |-> "none"]
    /\ totals = NoTotals
    /\ mKeys = {}
    /\ synced_keys = {}
    /\ InitNoProject
    /\ enPc = "call"
    /\ enWho \in {"analyzer", "syncer"}
    /\ \E numbers \in IssueLists :
          /\ heap = [i \in 1..Len(numbers) |-> IssueDict(numbers[i])]
          /\ given = [i \in 1..Len(numbers) |-> i]
    /\ heap0 = heap
    /\ returned = << >>

NextEnrich ==
    \E scope \in BOOLEAN, all_projects \in ProjectLists :
        EnrichIssues(scope, all_projects)

EnrichSpec == InitEnrich /\ [][NextEnrich]_vars

EnrichReturned == enPc \in {"no_scope", "no_projects", "enriched"}

\* The dicts handed in are as they were at the call
InputUntouched == \A i \in DOMAIN given : heap[given[i]] = heap0[given[i]]

\* The dicts returned are other objects than the ones handed in and carry
\* project_data
NewRecordsReturned ==
    /\ Len(returned) = Len(given)
    /\ \A i \in DOMAIN returned :
          /\ \A j \in DOMAIN given : returned[i] # given[j]
          /\ heap[returned[i]].has_project_data
          /\ heap[returned[i]].number = heap0[given[i]].number

\* C35: enrich_issues_with_project_data never modifies the issue records it
\* is given, on any path; it returns new records carrying project_data
C35_Original == EnrichReturned => (InputUntouched /\ NewRecordsReturned)

\* What holds: on the path with projects found the records given are left
\* alone and copies are returned; the analyzer never writes to a record given
C35_CopyPath ==
    /\ enPc = "enriched" => (InputUntouched /\ NewRecordsReturned)
    /\ (EnrichReturned /\ enWho = "analyzer") => InputUntouched

\* The syncer without the projects scope wrote project_data into the single
\* record it was given and returned that record
C35_InPlace ==
    /\ enPc = "no_scope" /\ enWho = "syncer"
    /\ Len(given) = 1 /\ returned = given
    /\ ~heap0[given[1]].has_project_data
    /\ heap[given[1]].has_project_data

----------------------------------------------------------------------------
(* The records of an interrupted calculate_cycle_times *)

\* The record the loop makes for an issue in a run without interruption:
\* extract_work_start_date passes its flag check and infers the work start
UninterruptedRecord(n) == [issue_number |-> n, work_started_at |-> "inferred"]

\* C36: every record in the list returned by an interrupted
\* calculate_cycle_times equals the record that an uninterrupted run computes
\* for the same issue
C36_Original ==
    (prog = "analyzer" /\ mPc = "calced" /\ stageOut = "interrupted") =>
        \A j \in 1..Len(metrics) : metrics[j] = UninterruptedRecord(mIssues[j])

\* What holds: when the flag is not set at the end of the stage, every
\* record is the one of an uninterrupted run
C36_FlagNotSet ==
    (prog = "analyzer" /\ mPc = "calced" /\ ~interrupted) =>
        \A j \in 1..Len(metrics) : metrics[j] = UninterruptedRecord(mIssues[j])

\* The flag was set while the 4th issue was handled and the list returned
\* holds the records of the issues 5 to 10, made with the flag set
C36_RecordsAfterFlag ==
    /\ prog = "analyzer" /\ mPc = "calced" /\ stageOut = "interrupted"
    /\ LastSig.i = 3
    /\ Len(metrics) = CheckEvery
    /\ \A j \in 5..CheckEvery : metrics[j].work_started_at = "None"

\* For one issue: the flag is set, the issue has an assignee and an 'assigned'
\* event within its bounds, and the record holds no work start and no cycle
\* time, where the signals give both
C36_FlagGivesNone ==
    /\ iPc = "recorded"
    /\ interrupted
    /\ work_started_at = NoTime /\ cycle_time_days.null
    /\ extract_work_start_date(issue, events, commits,
                               commit_search_available, FALSE) # NoTime
    /\ ~cycle_time(issue.closed_at,
                   extract_work_start_date(issue, events, commits,
                                           commit_search_available, FALSE)).null

----------------------------------------------------------------------------
(* fetch_issues with no issue collected *)

\* No HTTP error came back in the run
NoHttpError == fErr # "HTTPError" /\ ~saw422

\* C37: fetch_issues returns a list without raising in every run in which no
\* HTTP error occurs, also when zero issues were collected
C37_Original == (FetchOver /\ NoHttpError) => fPc = "returned"

\* What the run gives: without an HTTP error the call raises exactly when no
\* issue was collected, and what it raises is ZeroDivisionError
C37_RaisesWhenEmpty ==
    (FetchOver /\ NoHttpError) =>
        IF issues = << >>
        THEN fPc = "raised" /\ fErr = "ZeroDivisionError"
        ELSE fPc = "returned" /\ fErr = "none"

\* The first page was empty
C37_EmptyFirstPage ==
    /\ fPc = "raised" /\ fErr = "ZeroDivisionError"
    /\ srv.total = 0 /\ pageLog = << 1 >> /\ sig = NoSignal

\* Every item fetched was a pull request
C37_AllPulls ==
    /\ fPc = "raised" /\ fErr = "ZeroDivisionError"
    /\ srv.total > 0 /\ srv.pulls = "all" /\ sig = NoSignal

\* The fetch was interrupted before an issue was collected
C37_InterruptedEarly ==
    /\ fPc = "raised" /\ fErr = "ZeroDivisionError"
    /\ srv.total > 0 /\ srv.pulls = "none" /\ sig # NoSignal /\ interrupted

----------------------------------------------------------------------------
(* The document sync_issues_to_json writes *)

\* The syncer wrote its JSON file
DocumentWritten == prog = "syncer" /\ mPc = "end" /\ mOut = "synced"

\* C38: every issue written to the output document carries timeline_events,
\* commits and pull_requests, both when the detail stage runs to completion
\* and when it is interrupted; on completion the document holds all filtered
\* issues, on interruption the prefix processed so far
C38_Original ==
    DocumentWritten =>
        /\ synced > 0 => synced_keys = EnhancedKeys
        /\ stageOut = "complete" => synced = Len(mIssues) /\ synced = Len(enhanced_issues)
        /\ stageOut = "interrupted" => synced = Len(enhanced_issues)

\* What the run gives: the enrichment reaches the document only when the
\* detail stage was interrupted; a stage that ran to completion writes the
\* filtered issues as they were before it
C38_OnlyWhenInterrupted ==
    DocumentWritten =>
        /\ stageOut \in {"complete", "interrupted"}
        /\ synced_keys = IF stageOut = "interrupted" THEN EnhancedKeys ELSE {}
        /\ stageOut = "complete" => synced = Len(enhanced_issues)
        /\ stageOut = "interrupted" => synced = Len(enhanced_issues)

\* The detail stage handled every issue and the document written holds them
\* without the three keys
C38_CompleteUnenhanced ==
    /\ DocumentWritten /\ stageOut = "complete"
    /\ synced > 0 /\ Len(enhanced_issues) = synced
    /\ synced_keys = {}

\* The detail stage was interrupted at its check after CheckEvery issues and
\* the document holds those, with the three keys
C38_InterruptedPrefix ==
    /\ DocumentWritten /\ stageOut = "interrupted"
    /\ synced = CheckEvery
    /\ synced_keys = EnhancedKeys

----------------------------------------------------------------------------
(* Bounded response to cancellation *)

\* The steps of the run itself: every step of the pipeline but the signals
PipeProgress ==
    \/ FetchStart
    \/ FetchLoopTop
    \/ FetchBatch
    \/ MR_Tick
    \/ MR_Retry
    \/ MainFetched
    \/ MainEnrich
    \/ MainFilter
    \/ CalcStart
    \/ CalcTop
    \/ DetailStart
    \/ DetailTop
    \/ IssueRequest
    \/ IssueRequestDone
    \/ DetailWrite
    \/ MainCalced
    \/ ReportStart
    \/ ReportStep
    \/ ReportExit

\* The process keeps running: a step of the run that can be taken is taken
PipeFairSpec == PipeSpec /\ WF_vars(PipeProgress)

FetchRunning == fPc \in {"top", "wait"}

PerIssueRunning == mPc \in {"calc", "issue_req", "issue_wait", "detail"}

\* The flag was set while the per-issue loop of the stage was running
FlagInPerIssueLoop ==
    /\ interrupted
    /\ Cancelled
    /\ LastSig.h = "flag"
    /\ LastSig.at \in {"calc", "issue_req", "issue_wait", "detail"}

\* After the flag was set during fetch_issues no page beyond the one in
\* flight is requested
NoFurtherPage ==
    (sig # NoSignal /\ interrupted) =>
        \A i \in DOMAIN pageLog :
            /\ pageLog[i] <= sig.page
            /\ sig.fpc = "top" => pageLog[i] < sig.page

\* After the flag was set in a per-issue loop at most CheckEvery issues are
\* handled, the one in progress included
AtMostTenFurther ==
    (FlagInPerIssueLoop /\ mPc \in {"calc", "issue_req", "issue_wait", "detail",
                                    "calced", "write"}) =>
        /\ ci - LastSig.i <= CheckEvery
        /\ mPc \in {"calced", "write"} => stageOut \in {"interrupted", "complete"}

C39_PageInFlight ==
    /\ fPc = "returned" /\ interrupted
    /\ sig # NoSignal /\ sig.fpc = "wait" /\ sig.page = 2
    /\ pageLog = << 1, 2 >>

=============================================================================
